---------------------------- MODULE Spec2Model ----------------------------
(***************************************************************************)
(* Upload ingestion and content-addressed storage pipeline of the          *)
(* file-storage service: UploadService.handleUpload / processIncomingFile, *)
(* ImageService.processImage, VideoService.processVideo and                *)
(* MediaService.resolvePathsForSha, over a shared filesystem tree.         *)
(*                                                                         *)
(* An action is what one request does between two points where the event   *)
(* loop can run another request: an event handler, or the code from one    *)
(* await on shared state (the storage tree, the clock) to the next.        *)
(***************************************************************************)
EXTENDS Integers, FiniteSets, Sequences, TLC

(***************************************************************************)
(* Bounds of the model.                                                    *)
(***************************************************************************)
MaxDay == 2          \* UTC days the clock can show
MaxChunk == 2        \* largest chunk the transport delivers
MaxUploadBytes == 3  \* configured global ceiling (config.maxUploadBytes)

\* upload.service.ts:23 sets 4100; the model counts in units small enough for
\* the cap to bind on a body that passes the byte ceiling.
SNIFF_LENGTH == 1

(***************************************************************************)
(* Program constants.                                                      *)
(***************************************************************************)
FilesLimit == 1              \* upload.service.ts:79 limits.files
AbsoluteMaxVideoSec == 60   \* upload-auth.service.ts:65
DefaultMaxVideoSec == 60    \* upload.service.ts:330
MagicLen == 1               \* leading bytes file-type needs for a magic number

\* The two requests of a run: they may overlap or follow one another.
Req == {1, 2}

\* An optional value (undefined | v) is the empty set or a singleton.
None == {}
Some(v) == {v}
Coalesce(opt, default) == IF opt = {} THEN default ELSE CHOOSE v \in opt : TRUE

Min(a, b) == IF a <= b THEN a ELSE b

(***************************************************************************)
(* Inputs.  A body is what the client sends in the file part: its leading  *)
(* magic bytes, its length, its picture/sound content, its probed          *)
(* duration.  Two bodies that differ in length alone (metadata, padding)   *)
(* are different raw bytes with the same normalized output.                *)
(***************************************************************************)
\* `dur` is format.duration of ffprobe's report on the body, if it has one.
Jpeg(len) == [magic |-> "jpg", len |-> len, pix |-> "a", dur |-> None]
Unknown == [magic |-> "bin", len |-> 1, pix |-> "a", dur |-> None]
Clip(sec) == [magic |-> "mp4", len |-> 1, pix |-> "a", dur |-> Some(sec)]
Clips == {Clip(5), Clip(15)}
Untimed == [magic |-> "mp4", len |-> 1, pix |-> "a", dur |-> None]
Gif == [magic |-> "gif", len |-> 1, pix |-> "a", dur |-> None]
Webm(sec) == [magic |-> "webm", len |-> 1, pix |-> "a", dur |-> Some(sec)]

\* The time jwt.verify compares `exp` with, and an `exp` after it.
Now == 1
NotExpired == Now + 1

\* UploadTokenPayload (sub, kind, maxSize?, maxVideoSec?, exp) as the verifier
\* yields it; postId, which nothing reads, is left out.
ImageToken(maxSize) ==
    [sub |-> "alice", kind |-> "image", maxSize |-> maxSize,
     maxVideoSec |-> None, exp |-> NotExpired]
VideoToken(maxSec) ==
    [sub |-> "bob", kind |-> "video", maxSize |-> None,
     maxVideoSec |-> maxSec, exp |-> NotExpired]

(***************************************************************************)
(* The Authorization header, as the pieces between its spaces: a word or a *)
(* JWT with its signature and claims.  A claim of the JWT is a JSON value  *)
(* with its type, or absent.                                               *)
(***************************************************************************)
Str(s) == [type |-> "string", v |-> s]
Num(n) == [type |-> "number", n |-> n]
Absent == [type |-> "undefined"]

Word(text) == [text |-> text, jwt |-> None]
Jwt(sig, claims) == [text |-> "jwt", jwt |-> Some([sig |-> sig, claims |-> claims])]

OptNum(opt) == IF opt = None THEN Absent ELSE Num(Coalesce(opt, 0))

\* The claims of a JWT that carries the payload `token`.
ClaimsOf(token) ==
    [sub |-> Str(token.sub), kind |-> Str(token.kind),
     maxSize |-> OptNum(token.maxSize),
     maxVideoSec |-> OptNum(token.maxVideoSec), exp |-> Num(token.exp)]

\* `Bearer <jwt>` for a correctly signed JWT with the payload `token`.
Bearer(token) == Some(<<Word("Bearer"), Jwt("valid", ClaimsOf(token))>>)

\* scheme?.toLowerCase()
toLowerCase(text) ==
    CASE text \in {"Bearer", "BEARER", "bearer"} -> "bearer"
      [] text = "Basic" -> "basic"
      [] OTHER -> text

Verified(payload) == [error |-> "", payload |-> Some(payload)]
Thrown(message) == [error |-> message, payload |-> None]

\* jwt.verify(token, key, {algorithms}): throws for what is not a JWT, for a
\* signature that does not verify, for an `exp` that is not a number and for
\* one that has passed.
jwtVerifyThrows(piece) ==
    \/ piece.jwt = None
    \/ \E j \in piece.jwt :
          \/ j.sig # "valid"
          \/ j.claims.exp.type \notin {"number", "undefined"}
          \/ j.claims.exp.type = "number" /\ j.claims.exp.n <= Now

\* A verifier without the ceiling on maxVideoSec.
exceedsNoCeiling(claim) == FALSE
\* if (payload.maxVideoSec && payload.maxVideoSec > 60)
exceedsAbsoluteMax(claim) ==
    claim.type = "number" /\ claim.n # 0 /\ claim.n > AbsoluteMaxVideoSec

FromOptNum(claim) == IF claim.type = "number" THEN Some(claim.n) ELSE None

\* verifyToken after the key check: jwt.verify, the assert* of every claim in
\* the order of the payload literal, then the ceiling on maxVideoSec.
verifyToken(piece) ==
    IF jwtVerifyThrows(piece)
    THEN Thrown("Invalid or expired upload token")
    ELSE LET c == (CHOOSE j \in piece.jwt : TRUE).claims IN
         IF c.sub.type # "string" \/ c.sub.v = ""
         THEN Thrown("Token is missing required claim")
         ELSE IF c.kind.type # "string" \/ c.kind.v \notin {"image", "video"}
         THEN Thrown("Invalid token kind")
         ELSE IF c.maxSize.type \notin {"number", "undefined"}
         THEN Thrown("Token claim must be a number")
         ELSE IF c.maxVideoSec.type \notin {"number", "undefined"}
         THEN Thrown("Token claim must be a number")
         ELSE IF c.exp.type # "number"
         THEN Thrown("Token claim must be a number")
         ELSE IF exceedsAbsoluteMax(c.maxVideoSec)
         THEN Thrown("maxVideoSec cannot exceed 60 seconds")
         ELSE Verified([sub |-> c.sub.v, kind |-> c.kind.v,
                        maxSize |-> FromOptNum(c.maxSize),
                        maxVideoSec |-> FromOptNum(c.maxVideoSec),
                        exp |-> c.exp.n])

\* verifyAuthorizationHeader: const [scheme, token] = header.split(' ')
verifyAuthorizationHeader(header) ==
    IF header = None \/ header = Some(<<>>)
    THEN Thrown("Missing Authorization header")
    ELSE LET h == CHOOSE x \in header : TRUE IN
         IF \/ toLowerCase(h[1].text) # "bearer"
            \/ Len(h) < 2
            \/ h[2].text = ""
         THEN Thrown("Invalid Authorization header format")
         ELSE verifyToken(h[2])

\* The uploads of the model: [token, body, declared, nFiles], declared the
\* filename and content type the client gives the file part, nFiles the
\* number of file fields in the multipart body.
Uploads ==
    \* a picture of every length of interest: empty, short, longer than the
    \* sniff buffer, at the global ceiling, above it
    [token : {ImageToken(None)},
     body : {Jpeg(0), Jpeg(1), Jpeg(SNIFF_LENGTH + 1),
             Jpeg(MaxUploadBytes), Jpeg(MaxUploadBytes + 1)},
     declared : {"photo.png image/png"}, nFiles : {1}]
    \* a claim that lowers the ceiling, a claim that would raise it
    \cup [token : {ImageToken(Some(1))}, body : {Jpeg(SNIFF_LENGTH + 1)},
          declared : {"photo.png image/png"}, nFiles : {1}]
    \cup [token : {ImageToken(Some(MaxUploadBytes + 1))},
          body : {Jpeg(MaxUploadBytes + 1)},
          declared : {"photo.png image/png"}, nFiles : {1}]
    \* the same picture declared as a video; other content under an image claim
    \cup [token : {ImageToken(None)}, body : {Jpeg(1), Clip(5), Unknown},
          declared : {"clip.mp4 video/mp4"}, nFiles : {1}]
    \* no file field, two file fields
    \cup [token : {ImageToken(None)}, body : {Jpeg(1)},
          declared : {"photo.png image/png"}, nFiles : {0, 2}]
    \* video claims with and without a duration ceiling
    \cup [token : {VideoToken(None)}, body : {Clip(15), Jpeg(1)},
          declared : {"clip.mp4 video/mp4"}, nFiles : {1}]
    \cup [token : {VideoToken(Some(10))}, body : Clips \cup {Untimed},
          declared : {"clip.mp4 video/mp4"}, nFiles : {1}]
    \* types the allow-lists let through and the normalizers do not take
    \cup [token : {ImageToken(None)}, body : {Gif},
          declared : {"photo.png image/png"}, nFiles : {1}]
    \cup [token : {VideoToken(Some(10))}, body : {Webm(5), Webm(15)},
          declared : {"clip.mp4 video/mp4"}, nFiles : {1}]

\* Credentials tried with a request that has no file part: missing and
\* malformed headers, tokens that do not verify, claims of the wrong shape,
\* a duration ceiling above and at the absolute maximum, and headers the
\* verifier reads leniently (scheme in lower case, text after the token).
GoodJwt == Jwt("valid", ClaimsOf(ImageToken(None)))
WithClaim(field, value) ==
    Jwt("valid", [ClaimsOf(ImageToken(None)) EXCEPT ![field] = value])

Credentials ==
    {None, Some(<<>>),
     Some(<<Word("Basic"), GoodJwt>>),
     Some(<<Word("Bearer")>>),
     Some(<<Word("Bearer"), Word(""), GoodJwt>>),
     Some(<<Word("Bearer"), Word("garbage")>>),
     Some(<<Word("Bearer"), Jwt("forged", ClaimsOf(ImageToken(None)))>>),
     Some(<<Word("Bearer"), WithClaim("exp", Num(Now))>>),
     Some(<<Word("Bearer"), WithClaim("exp", Absent)>>),
     Some(<<Word("Bearer"), WithClaim("exp", Str("never"))>>),
     Some(<<Word("Bearer"), WithClaim("sub", Str(""))>>),
     Some(<<Word("Bearer"), WithClaim("sub", Absent)>>),
     Some(<<Word("Bearer"), WithClaim("sub", Num(7))>>),
     Some(<<Word("Bearer"), WithClaim("kind", Str("audio"))>>),
     Some(<<Word("Bearer"), WithClaim("maxSize", Str("big"))>>),
     Some(<<Word("Bearer"), WithClaim("maxVideoSec", Str("long"))>>),
     Bearer(VideoToken(Some(AbsoluteMaxVideoSec + 1))),
     Some(<<Word("Bearer"),
            Jwt("valid", [ClaimsOf(VideoToken(Some(AbsoluteMaxVideoSec + 1)))
                             EXCEPT !.sub = Str("")])>>),
     Bearer(VideoToken(Some(AbsoluteMaxVideoSec))),
     Some(<<Word("bearer"), GoodJwt>>),
     Some(<<Word("Bearer"), GoodJwt, Word("trailing")>>)}

\* What the controller receives: the Authorization header and the body.
Requests ==
    {[header |-> Bearer(u.token), body |-> u.body, declared |-> u.declared,
      nFiles |-> u.nFiles] : u \in Uploads}
    \cup [header : Credentials, body : {Jpeg(1)},
          declared : {"photo.png image/png"}, nFiles : {0}]

VARIABLES
    today,      \* the UTC date bucket the clock shows
    originals,  \* files under originalsDir: [dir, sha, ext, data]
    thumbs,     \* files under thumbsDir: [dir, sha]
    odirs,      \* bucket directories under originalsDir
    tdirs,      \* bucket directories under thumbsDir
    tmpFiles,   \* files in tmpDir: <<"upload", r>>, <<"video", r>>
    pc,         \* position of each request
    inp,        \* what each request carries
    st,         \* stream state of processIncomingFile
    loc,        \* locals of the normalizers
    out,        \* how handleUpload's promise settled
    meta        \* what getMetadataBySha returned, once it was asked

vars == <<today, originals, thumbs, odirs, tdirs, tmpFiles, pc, inp, st, loc, out,
          meta>>
fsys == <<originals, thumbs, odirs, tdirs>>

(***************************************************************************)
(* Records.                                                                *)
(***************************************************************************)
NoInput == [token |-> [sub |-> "", kind |-> "image", maxSize |-> None,
                       maxVideoSec |-> None, exp |-> 0],
            body |-> [magic |-> "bin", len |-> 0, pix |-> "a", dur |-> None],
            declared |-> "photo.png image/png", nFiles |-> 0, hardLimit |-> 0,
            after |-> {}, alone |-> TRUE, header |-> None]

NoStream == [received |-> 0, fileSize |-> 0, totalBytes |-> 0, written |-> 0,
             sniffBytes |-> 0, busboyLimitReached |-> FALSE,
             files |-> 0, processed |-> FALSE, parsed |-> FALSE,
             pipelineError |-> "", sniffChunks |-> <<>>, tmpData |-> <<>>]

NoTools == [t \in {"sharp", "probe", "remux", "reencode", "thumb"} |-> 0]

NoLocals == [detected |-> None, data |-> None, sha |-> None, ext |-> "",
             paths |-> None, day |-> 0, bytes |-> 0,
             tools |-> NoTools, wrote |-> {}, thumbFrom |-> None]

Pending == [settled |-> "pending", error |-> "", message |-> "", response |-> None]

\* A temp file under one fixed name for every request.
TmpShared(r) == <<"upload", 0>>
TmpOf(r) == <<"upload", r>>       \* `${randomUUID()}.tmp` of request r
MidOf(r) == <<"video", r>>        \* `${randomUUID()}.${targetExt}` of request r

Init ==
    /\ today = 1
    /\ originals = {}
    /\ thumbs = {}
    /\ odirs = {}
    /\ tdirs = {}
    /\ tmpFiles = {}
    /\ pc = [r \in Req |-> "idle"]
    /\ inp = [r \in Req |-> NoInput]
    /\ st = [r \in Req |-> NoStream]
    /\ loc = [r \in Req |-> NoLocals]
    /\ out = [r \in Req |-> Pending]
    /\ meta = None

(***************************************************************************)
(* The promise handleUpload returns: the first resolve or reject settles   *)
(* it, later ones are ignored.                                             *)
(***************************************************************************)
\* The exception class behind each message the service throws; a plain Error
\* (a tool that exits non-zero, a file operation that fails) has the others.
ExceptionOf(message) ==
    CASE message \in {"Only one file is allowed per request",
                      "No file field provided", "Upload failed",
                      "Failed to read upload stream",
                      "Uploaded file is empty",
                      "maxVideoSec cannot exceed 60 seconds"} -> "BadRequest"
      [] message \in {"Missing Authorization header",
                      "Invalid Authorization header format",
                      "Invalid or expired upload token",
                      "Token is missing required claim",
                      "Invalid token kind",
                      "Token claim must be a number"} -> "Unauthorized"
      [] message \in {"File exceeds allowed size",
                      "Video duration exceeds allowed"} -> "PayloadTooLarge"
      [] message \in {"Unable to detect file type", "MIME type not allowed",
                      "Unsupported image extension",
                      "Unsupported video extension"} -> "UnsupportedMediaType"
      [] OTHER -> "InternalError"

Reject(o, message) ==
    IF o.settled = "pending"
    THEN [settled |-> "rejected", error |-> ExceptionOf(message),
          message |-> message, response |-> None]
    ELSE o

Resolve(o, resp) ==
    IF o.settled = "pending"
    THEN [settled |-> "resolved", error |-> "", message |-> "",
          response |-> Some(resp)]
    ELSE o

\* hardLimit = Math.min(maxUploadBytes, token.maxSize ?? maxUploadBytes)
HardLimitWrong(token) == Coalesce(token.maxSize, MaxUploadBytes)
HardLimit(token) == Min(MaxUploadBytes, Coalesce(token.maxSize, MaxUploadBytes))

(***************************************************************************)
(* The clock.  Only resolvePathsForSha looks at it (buildDatePath), so the *)
(* date changes in the model while a request is there: a change at any     *)
(* other moment is the same change, seen when the next request gets there. *)
(***************************************************************************)
ClockWatched == \E r \in Req : pc[r] \in {"resolve", "allocate"}

Tick ==
    /\ today < MaxDay
    /\ ClockWatched
    /\ today' = today + 1
    /\ UNCHANGED <<originals, thumbs, odirs, tdirs, tmpFiles, pc, inp, st, loc,
                   out, meta>>

(***************************************************************************)
(* handleUpload: the request arrives with its verified token.  `after`     *)
(* notes the requests that had succeeded by then, and loc.day the UTC day  *)
(* on which the request resolved its paths; nothing reads either.          *)
(***************************************************************************)
Succeeded == {q \in Req : out[q].settled = "resolved"}
\* `alone` notes whether every other request had been answered, or had not
\* arrived, when this one arrived; nothing reads it.
NoneInFlight(r) == \A q \in Req \ {r} : pc[q] \in {"idle", "refused", "done"}

\* UploadController.upload when the verifier returns a payload: handleUpload
\* with it, up to request.raw.pipe(busboy).
handleUpload(r) ==
    /\ pc[r] = "idle"
    /\ \A q \in Req : q < r => pc[q] # "idle"
    /\ \E u \in Requests :
          LET v == verifyAuthorizationHeader(u.header) IN
          /\ v.error = ""
          /\ LET token == CHOOSE p \in v.payload : TRUE IN
             inp' = [inp EXCEPT ![r] = [token |-> token, body |-> u.body,
                                        declared |-> u.declared,
                                        nFiles |-> u.nFiles,
                                        hardLimit |-> HardLimit(token),
                                        after |-> Succeeded,
                                        alone |-> NoneInFlight(r),
                                        header |-> u.header]]
    /\ pc' = [pc EXCEPT ![r] = "parsing"]
    /\ UNCHANGED <<meta, today, fsys, tmpFiles, st, loc, out>>

\* UploadController.upload when the verifier throws: the request is answered
\* with the exception and handleUpload is not called.
verifyThrows(r) ==
    /\ pc[r] = "idle"
    /\ \A q \in Req : q < r => pc[q] # "idle"
    /\ \E u \in Requests :
          LET v == verifyAuthorizationHeader(u.header) IN
          /\ v.error # ""
          /\ inp' = [inp EXCEPT ![r].header = u.header]
          /\ out' = [out EXCEPT ![r] = Reject(@, v.error)]
    /\ pc' = [pc EXCEPT ![r] = "refused"]
    /\ UNCHANGED <<meta, today, fsys, tmpFiles, st, loc>>

(***************************************************************************)
(* A request that ends: the promise is rejected and nothing more runs.     *)
(* `unlinked` are the temp files the failing path removes on its way out.  *)
(***************************************************************************)
Fail(r, err, unlinked) ==
    /\ out' = [out EXCEPT ![r] = Reject(@, err)]
    /\ pc' = [pc EXCEPT ![r] = "done"]
    /\ tmpFiles' = tmpFiles \ unlinked

(***************************************************************************)
(* busboy, created with limits {files: FilesLimit, fileSize: hardLimit}.   *)
(* A part with a filename is a file; busboy emits 'file' for it only while *)
(* it has emitted fewer than limits.files of them, and skips it otherwise  *)
(* ('filesLimit', which the service does not listen to).                   *)
(***************************************************************************)
BusboyEmitsFile(files) == files < FilesLimit

\* busboy.on('file') for the first file part: processed is still false.
onFile(r) ==
    /\ pc[r] = "parsing"
    /\ inp[r].nFiles >= 1
    /\ BusboyEmitsFile(st[r].files)
    /\ ~st[r].processed
    /\ st' = [st EXCEPT ![r].files = @ + 1, ![r].processed = TRUE]
    /\ tmpFiles' = tmpFiles \cup {TmpOf(r)}       \* createWriteStream(tmpPath)
    /\ pc' = [pc EXCEPT ![r] = "streaming"]
    /\ UNCHANGED <<meta, today, fsys, inp, loc, out>>

\* busboy.on('file') for a further file part, if busboy emits it:
\* processed is true, so the request is rejected.
onFurtherFile(o, s, nFiles) ==
    IF nFiles >= 2 /\ BusboyEmitsFile(s.files) /\ s.processed
    THEN Reject(o, "Only one file is allowed per request")
    ELSE o

\* busboy.on('finish') of a body without any file part.
onFinish(r) ==
    /\ pc[r] = "parsing"
    /\ inp[r].nFiles = 0
    /\ ~st[r].processed
    /\ st' = [st EXCEPT ![r].parsed = TRUE]
    /\ Fail(r, "No file field provided", {})
    /\ UNCHANGED <<meta, today, fsys, inp, loc>>

\* busboy.on('error'): a malformed multipart body.
onError(r) ==
    /\ pc[r] = "parsing"
    /\ Fail(r, "Upload failed", {})
    /\ UNCHANGED <<meta, today, fsys, inp, st, loc>>

(***************************************************************************)
(* Streaming the file part.  busboy pushes to the file stream at most      *)
(* limits.fileSize bytes in all: with the chunk that takes the count to    *)
(* the limit (cut to fit) it emits 'limit' on the file stream, and it      *)
(* reads and drops the rest of the part.                                   *)
(***************************************************************************)
BusboyForward(s, k, limit) ==
    IF s.busboyLimitReached THEN 0 ELSE Min(k, limit - s.fileSize)

\* fileSize === fileSizeLimit after the chunk: file.on('limit') fires.
BusboyLimit(s, k, limit) ==
    ~s.busboyLimitReached /\ k >= limit - s.fileSize

\* The sniff tap of the transform: sniffChunks.push(buffer.slice(0, SNIFF_LENGTH - sniffBytes)).
SniffTap(sniffBytes, len) ==
    IF sniffBytes < SNIFF_LENGTH
    THEN sniffBytes + Min(len, SNIFF_LENGTH - sniffBytes)
    ELSE sniffBytes

\* A slice that is the whole buffer.
sliceWhole(buffer, start, end) == buffer
\* buffer.slice(start, end): the bytes from offset start up to, not
\* including, offset end, or up to the end of the buffer.
slice(buffer, start, end) == SubSeq(buffer, start + 1, Min(end, Len(buffer)))

\* The bytes of the file part are told apart by their position in it: the
\* chunk busboy pushes is the next `fwd` bytes after those received.
ChunkAt(received, fwd) == [i \in 1..fwd |-> received + i]

\* sniffChunks.push(buffer.slice(0, SNIFF_LENGTH - sniffBytes)), and
\* Buffer.concat(sniffChunks) of it.
sniffPush(sniffChunks, sniffBytes, buffer) ==
    IF sniffBytes < SNIFF_LENGTH
    THEN sniffChunks \o slice(buffer, 0, SNIFF_LENGTH - sniffBytes)
    ELSE sniffChunks

\* totalBytes > hardLimit in the transform: the chunk is not passed on.
TapOverflow(total, limit) == total > limit

\* One chunk of the file part arrives.
onChunk(r) ==
    /\ pc[r] = "streaming"
    /\ \E k \in 1..MaxChunk :
        LET s == st[r]
            limit == inp[r].hardLimit
            fwd == BusboyForward(s, k, limit)
            s1 == [s EXCEPT !.received = @ + k,
                            !.fileSize = @ + fwd,
                            !.busboyLimitReached =
                                @ \/ BusboyLimit(s, k, limit)]
            total == s.totalBytes + fwd
            buffer == ChunkAt(s.received, fwd)
            s2 == [s1 EXCEPT !.sniffBytes = SniffTap(@, fwd),
                             !.sniffChunks = sniffPush(@, s.sniffBytes, buffer),
                             !.totalBytes = total]
        IN  /\ s.received + k <= inp[r].body.len
            /\ IF fwd = 0
               THEN /\ st' = [st EXCEPT ![r] = s1]
                    /\ UNCHANGED <<pc, out, tmpFiles>>
               ELSE IF TapOverflow(total, limit)
               THEN \* pipeline rejects; catch: unlink(tmpPath), rethrow
                    /\ st' = [st EXCEPT ![r] = s2]
                    /\ Fail(r, "File exceeds allowed size", {TmpOf(r)})
               ELSE \* callback(null, buffer): the write stream appends it
                    /\ st' = [st EXCEPT ![r] = [s2 EXCEPT !.written = @ + fwd,
                                                          !.tmpData = @ \o buffer]]
                    /\ UNCHANGED <<pc, out, tmpFiles>>
    /\ UNCHANGED <<meta, today, fsys, inp, loc>>

\* A service that goes on with whatever reached the temp file.
afterStreamUnchecked(s) == ""

\* After the pipeline: if (busboyLimitReached) ...; if (totalBytes === 0) ...
\* The error thrown, "" when there is none; either way tmpPath is unlinked.
afterStream(s) ==
    IF s.busboyLimitReached THEN "File exceeds allowed size"
    ELSE IF s.totalBytes = 0 THEN "Uploaded file is empty"
    ELSE ""

\* A pipeline that is not awaited: the next step starts at any moment.
StreamEndedEarly(r) == TRUE
\* await pipeline(file, tap, writeStream) resolves once the whole file part
\* has gone through the tap into the temp file.
StreamEnded(r) == st[r].received = inp[r].body.len

\* The file part ends and the pipeline resolves; the rest of the body (a
\* further file part, the closing boundary) is parsed with it.  The checks
\* on the size follow without an await.
onEnd(r) ==
    /\ pc[r] = "streaming"
    /\ StreamEnded(r)
    /\ LET o == onFurtherFile(out[r], st[r], inp[r].nFiles)
           err == afterStream(st[r])
       IN IF err # ""
          THEN /\ out' = [out EXCEPT ![r] = Reject(o, err)]
               /\ pc' = [pc EXCEPT ![r] = "done"]
               /\ tmpFiles' = tmpFiles \ {TmpOf(r)}
          ELSE /\ out' = [out EXCEPT ![r] = o]
               /\ pc' = [pc EXCEPT ![r] = "sniffing"]
               /\ UNCHANGED tmpFiles
    /\ st' = [st EXCEPT ![r].parsed = TRUE]
    /\ UNCHANGED <<meta, today, fsys, inp, loc>>

\* What makes pipeline(file, tap, writeStream) reject apart from the tap's
\* own exception: busboy destroys the file stream (the body ends inside the
\* part), or the write stream on tmpPath fails (ENOSPC here; EACCES and
\* ENOENT take the same way).
PipelineErrors == {"Unexpected end of file", "ENOSPC"}
DiskErrors == {"ENOSPC"}

\* The catch around the pipeline: whatever the error is, unless it is the
\* tap's PayloadTooLargeException, a BadRequestException replaces it.
pipelineCatch(error) == "Failed to read upload stream"

\* The pipeline rejects with such an error: catch, unlink, throw.
onStreamError(r) ==
    /\ pc[r] = "streaming"
    /\ \E error \in PipelineErrors :
          /\ st' = [st EXCEPT ![r].pipelineError = error]
          /\ Fail(r, pipelineCatch(error), {TmpOf(r)})
    /\ UNCHANGED <<meta, today, fsys, inp, loc>>

\* request.raw.pipe(busboy) when request.raw is destroyed before its end
\* (the client disconnects): pipe() ends the destination on the source's
\* 'end' alone, and nothing listens to request.raw's 'error', 'aborted' or
\* 'close'.  busboy is left waiting for the rest of the body: no 'file',
\* 'finish' or 'error' will come, and a file stream already open never ends.
onRawError(r) ==
    /\ pc[r] \in {"parsing", "streaming"}
    /\ pc' = [pc EXCEPT ![r] = "stalled"]
    /\ UNCHANGED <<meta, today, fsys, tmpFiles, inp, st, loc, out>>

(***************************************************************************)
(* After the stream: sniffing and the allow-list.                          *)
(***************************************************************************)
\* file-type on the sniff buffer: the magic number decides, nothing else.
MimeOfMagic(magic) ==
    CASE magic = "jpg" -> Some([mime |-> "image/jpeg", ext |-> "jpg"])
      [] magic = "png" -> Some([mime |-> "image/png", ext |-> "png"])
      [] magic = "mp4" -> Some([mime |-> "video/mp4", ext |-> "mp4"])
      [] magic = "gif" -> Some([mime |-> "image/gif", ext |-> "gif"])
      [] magic = "webm" -> Some([mime |-> "video/webm", ext |-> "webm"])
      [] OTHER -> None

fileTypeFromBuffer(magic, sniffBytes) ==
    IF sniffBytes >= MagicLen THEN MimeOfMagic(magic) ELSE None

\* What a service trusting the client would do: take the declared type.
DetectedFromDeclared(r) ==
    IF inp[r].declared = "photo.png image/png"
    THEN Some([mime |-> "image/png", ext |-> "png"])
    ELSE Some([mime |-> "video/mp4", ext |-> "mp4"])
\* const detected = await fileTypeFromBuffer(Buffer.concat(sniffChunks))
Detected(r) == fileTypeFromBuffer(inp[r].body.magic, st[r].sniffBytes)

\* environment.ts:13-30, ALLOWED_IMAGE_MIME and ALLOWED_VIDEO_MIME: the
\* defaults and, as a deployment may set them, one more type each.
AllowedImageMime == {"image/jpeg", "image/png", "image/webp", "image/gif"}
AllowedVideoMime == {"video/mp4", "video/quicktime", "video/webm"}

\* A check that lets every detected type through.
assertAnyMime(mime, kind) == TRUE
\* assertMimeAllowed(mime, kind) returns rather than throws.
assertMimeAllowed(mime, kind) ==
    mime \in (IF kind = "image" THEN AllowedImageMime ELSE AllowedVideoMime)

DetectedOf(r) == CHOOSE d \in loc[r].detected : TRUE

\* await fileTypeFromBuffer(...): nothing detected is thrown with tmpPath
\* unlinked; then this.assertMimeAllowed(...), outside the try/finally, and
\* the dispatch on token.kind.
sniff(r) ==
    /\ pc[r] = "sniffing"
    /\ loc' = [loc EXCEPT ![r].detected = Detected(r)]
    /\ IF Detected(r) = None
       THEN Fail(r, "Unable to detect file type", {TmpOf(r)})
       ELSE LET detected == CHOOSE d \in Detected(r) : TRUE IN
            IF ~assertMimeAllowed(detected.mime, inp[r].token.kind)
            THEN Fail(r, "MIME type not allowed", {})
            ELSE /\ pc' = [pc EXCEPT ![r] =
                             IF inp[r].token.kind = "image" THEN "image" ELSE "probe"]
                 /\ UNCHANGED <<out, tmpFiles>>
    /\ UNCHANGED <<meta, today, fsys, inp, st>>

(***************************************************************************)
(* A normalizer throws: processIncomingFile's finally unlinks the upload's *)
(* temp file, and handleUpload rejects with the error.                     *)
(***************************************************************************)
Throw(r, err) == Fail(r, err, {TmpOf(r)})

\* A tool that is run again after it has run.
InvokeAgain(l, tool) == [l EXCEPT !.tools[tool] = @ + 2]
\* One run of sharp, ffprobe or ffmpeg, counted for the request.
Invoke(l, tool) == [l EXCEPT !.tools[tool] = @ + 1]

\* hashBuffer / hashFile: SHA-256, taken collision-free.
Sha256(data) == <<"sha256", data.fmt, data.pix, data.how>>
DataLen(data) == IF data.pix = "a" THEN 1 ELSE 2

(***************************************************************************)
(* ImageService.processImage, up to the digest.                            *)
(***************************************************************************)
\* A normalizer that takes GIF as well.
ImageExtsWithGif == {"jpg", "jpeg", "png", "webp", "gif"}
\* normalizeExt of the image normalizer: the extensions it returns for.
ImageExts == {"jpg", "jpeg", "png", "webp"}
normalizeExtImage(ext) == IF ext = "jpeg" THEN "jpg" ELSE ext

imageNormalize(r) ==
    /\ pc[r] = "image"
    /\ LET ext == DetectedOf(r).ext IN
       IF ext \notin ImageExts
       THEN /\ Throw(r, "Unsupported image extension")
            /\ UNCHANGED loc
       ELSE \E ok \in BOOLEAN :
              IF ~ok
              THEN \* sharp cannot decode the file
                   /\ Throw(r, "sharp failed")
                   /\ loc' = [loc EXCEPT ![r] = Invoke(@, "sharp")]
              ELSE LET data == [fmt |-> normalizeExtImage(ext),
                                pix |-> inp[r].body.pix, how |-> "sharp"]
                   IN /\ loc' = [loc EXCEPT ![r] =
                                   [Invoke(@, "sharp") EXCEPT
                                      !.data = Some(data),
                                      !.sha = Some(Sha256(data)),
                                      !.ext = normalizeExtImage(ext)]]
                      /\ pc' = [pc EXCEPT ![r] = "resolve"]
                      /\ UNCHANGED <<out, tmpFiles>>
    /\ UNCHANGED <<meta, today, fsys, inp, st>>

(***************************************************************************)
(* VideoService.processVideo, up to the digest.                            *)
(***************************************************************************)
VideoExts == {"mp4", "mov"}

\* token.maxVideoSec ?? 60
MaxDurationSec(token) == Coalesce(token.maxVideoSec, DefaultMaxVideoSec)

\* A probe without a duration taken for a video that is too long.
durationOrTooLong(body) == Coalesce(body.dur, AbsoluteMaxVideoSec + 1)
\* const durationSec = probe.durationSec ?? 0
durationOf(body) == Coalesce(body.dur, 0)

\* if (durationSec > input.maxDurationSec) throw
DurationNeverExceeds(durationSec, maxSec) == FALSE
DurationExceeds(durationSec, maxSec) == durationSec > maxSec

\* probe, the duration ceiling, then normalizeExt.
\* A normalizer that looks at the extension before the duration.
checksExtensionFirst(durationSec, maxSec, ext) ==
    IF ext \notin VideoExts THEN "Unsupported video extension"
    ELSE IF DurationExceeds(durationSec, maxSec)
    THEN "Video duration exceeds allowed"
    ELSE ""
\* processVideo after the probe: the duration against the ceiling, then
\* normalizeExt(input.ext).  The message thrown, "" when there is none.
checksAfterProbe(durationSec, maxSec, ext) ==
    IF DurationExceeds(durationSec, maxSec)
    THEN "Video duration exceeds allowed"
    ELSE IF ext \notin VideoExts THEN "Unsupported video extension"
    ELSE ""

videoProbe(r) ==
    /\ pc[r] = "probe"
    /\ loc' = [loc EXCEPT ![r] = Invoke(@, "probe")]
    /\ \E ok \in BOOLEAN :
         LET err == checksAfterProbe(durationOf(inp[r].body),
                                     MaxDurationSec(inp[r].token),
                                     DetectedOf(r).ext)
         IN IF ~ok
            THEN Throw(r, "ffprobe failed")            \* ffprobe exits non-zero
            ELSE IF err # ""
            THEN Throw(r, err)
            ELSE /\ pc' = [pc EXCEPT ![r] = "strip"]
                 /\ UNCHANGED <<out, tmpFiles>>
    /\ UNCHANGED <<meta, today, fsys, inp, st>>

VideoData(r, how) ==
    [fmt |-> DetectedOf(r).ext, pix |-> inp[r].body.pix, how |-> how]

\* stripMetadata, the remux: on failure its output is unlinked and the
\* re-encode follows.
stripMetadata(r) ==
    /\ pc[r] = "strip"
    /\ \E ok \in BOOLEAN :
         IF ok
         THEN /\ tmpFiles' = tmpFiles \cup {MidOf(r)}
              /\ loc' = [loc EXCEPT ![r] =
                           [Invoke(@, "remux") EXCEPT
                              !.data = Some(VideoData(r, "copy")),
                              !.ext = DetectedOf(r).ext]]
              /\ pc' = [pc EXCEPT ![r] = "hash"]
         ELSE /\ tmpFiles' = tmpFiles \ {MidOf(r)}
              /\ loc' = [loc EXCEPT ![r] = Invoke(@, "remux")]
              /\ pc' = [pc EXCEPT ![r] = "reencode"]
    /\ UNCHANGED <<meta, today, fsys, inp, st, out>>

\* A runFfmpeg whose failure is swallowed.
runFfmpegSwallows(ok) == FALSE
\* runFfmpeg: await execFileAsync(ffmpegPath, args) rejects when ffmpeg
\* exits non-zero, and nothing around the fallback catches it.
runFfmpegThrows(ok) == ~ok

\* stripMetadata, the fallback re-encode: on failure it throws, and what
\* ffmpeg had written of its output stays or not.
reencode(r) ==
    /\ pc[r] = "reencode"
    /\ \E ok \in BOOLEAN, partial \in BOOLEAN :
         IF ~runFfmpegThrows(ok)
         THEN /\ ~partial
              /\ tmpFiles' = tmpFiles \cup {MidOf(r)}
              /\ loc' = [loc EXCEPT ![r] =
                           [Invoke(@, "reencode") EXCEPT
                              !.data = IF ok THEN Some(VideoData(r, "x264"))
                                       ELSE None,
                              !.ext = DetectedOf(r).ext]]
              /\ pc' = [pc EXCEPT ![r] = "hash"]
              /\ UNCHANGED out
         ELSE /\ loc' = [loc EXCEPT ![r] = Invoke(@, "reencode")]
              /\ out' = [out EXCEPT ![r] = Reject(@, "ffmpeg failed")]
              /\ pc' = [pc EXCEPT ![r] = "done"]
              /\ tmpFiles' = (tmpFiles \ {TmpOf(r)})
                               \cup (IF partial THEN {MidOf(r)} ELSE {})
    /\ UNCHANGED <<meta, today, fsys, inp, st>>

DataOf(r) == CHOOSE d \in loc[r].data : TRUE
ShaOf(r) == CHOOSE h \in loc[r].sha : TRUE

\* hashFile(normalizedPath)
hashFile(r) ==
    /\ pc[r] = "hash"
    /\ \E ok \in BOOLEAN :
         IF ok
         THEN /\ loc' = [loc EXCEPT ![r].sha = Some(Sha256(DataOf(r)))]
              /\ pc' = [pc EXCEPT ![r] = "resolve"]
              /\ UNCHANGED <<out, tmpFiles>>
         ELSE /\ Throw(r, "read failed")
              /\ UNCHANGED loc
    /\ UNCHANGED <<meta, today, fsys, inp, st>>

(***************************************************************************)
(* MediaService.resolvePathsForSha.                                        *)
(***************************************************************************)
\* A search of today's bucket alone, where the source searches the tree.
findInTodaysBucket(sha, ext) ==
    {f \in originals : f.sha = sha /\ f.ext = ext /\ f.dir = today}
\* fast-glob `**/${sha}.${ext}` under originalsDir.
findExistingOriginal(sha, ext) ==
    {f \in originals : f.sha = sha /\ f.ext = ext}

\* buildStorageKey: the path relative to its root, under the prefix.
buildStorageKey(prefix, dir, sha, ext) == <<prefix, dir, sha, ext>>

\* A thumbnail path put under the bucket of the current date.
deriveThumbPathToday(f) == [dir |-> today, sha |-> f.sha]
\* deriveThumbPathFromOriginal: same relative directory, `${sha}.jpg`.
deriveThumbPathFromOriginal(f) == [dir |-> f.dir, sha |-> f.sha]

\* buildDatePath(): the bucket of the current UTC date.
buildDatePath == today

MediaPathsResult(dir, sha, ext, thumb, isNew) ==
    [dir |-> dir, thumb |-> thumb, isNew |-> isNew,
     originalKey |-> buildStorageKey("o", dir, sha, ext),
     thumbKey |-> buildStorageKey("t", thumb.dir, thumb.sha, "jpg")]

\* The search: matches[0] of the glob, if any.
resolvePathsForSha(r) ==
    /\ pc[r] = "resolve"
    /\ LET matches == findExistingOriginal(ShaOf(r), loc[r].ext) IN
       IF matches = {}
       THEN /\ pc' = [pc EXCEPT ![r] = "allocate"]
            /\ loc' = [loc EXCEPT ![r].day = today]
       ELSE \E existing \in matches :
              /\ loc' = [loc EXCEPT ![r].paths =
                           Some(MediaPathsResult(existing.dir, existing.sha,
                                  existing.ext,
                                  deriveThumbPathFromOriginal(existing), FALSE)),
                                    ![r].day = today]
              /\ pc' = [pc EXCEPT ![r] = "store"]
    /\ UNCHANGED <<meta, today, fsys, tmpFiles, inp, st, out>>

\* Nothing found: today's bucket, both directories made.
allocate(r) ==
    /\ pc[r] = "allocate"
    /\ \E ok \in BOOLEAN :
         IF ok
         THEN LET datePath == buildDatePath IN
              /\ odirs' = odirs \cup {datePath}
              /\ tdirs' = tdirs \cup {datePath}
              /\ loc' = [loc EXCEPT ![r].paths =
                           Some(MediaPathsResult(datePath, ShaOf(r), loc[r].ext,
                                  [dir |-> datePath, sha |-> ShaOf(r)], TRUE)),
                                    ![r].day = today,
                                    ![r].wrote = @ \cup {"bucket"}]
              /\ pc' = [pc EXCEPT ![r] = "store"]
              /\ UNCHANGED <<out, tmpFiles>>
         ELSE \* the first or the second mkdir fails
              /\ Throw(r, "mkdir failed")
              /\ \E first \in BOOLEAN :
                    IF first
                    THEN UNCHANGED <<odirs, loc>>
                    ELSE /\ odirs' = odirs \cup {buildDatePath}
                         /\ loc' = [loc EXCEPT ![r].wrote = @ \cup {"bucket"}]
              /\ UNCHANGED tdirs
    /\ UNCHANGED <<meta, today, originals, thumbs, inp, st>>

(***************************************************************************)
(* Persisting the original and ensuring the thumbnail (both normalizers).  *)
(***************************************************************************)
PathsOf(r) == CHOOSE p \in loc[r].paths : TRUE
IsVideo(r) == inp[r].token.kind = "video"

FileAt(dir, sha, ext) == {f \in originals : f.dir = dir /\ f.sha = sha /\ f.ext = ext}

\* fs.stat(paths.originalPath).size: the bytes that are in the file now.
StatSize(dir, sha, ext) ==
    LET f == CHOOSE g \in FileAt(dir, sha, ext) : TRUE IN f.size

\* if (paths.isNew) mkdir (of the bucket resolvePathsForSha made), then
\* writeFile / copyFile to originalPath; the image normalizer then takes
\* the size, of its buffer or by stat.
\* writeFile and copyFile open the destination, which creates or truncates
\* it, and then write into it: from the open to the last write the file is
\* there, under its final name, with fewer bytes than it will have.
\* A normalizer that writes the original whether or not one was found.
writesAlways(p) == TRUE
\* if (paths.isNew): the original is written for a new digest only.
writesOriginal(p) == p.isNew

storeOriginal(r) ==
    /\ pc[r] = "store"
    /\ LET p == PathsOf(r)
           file == [dir |-> p.dir, sha |-> ShaOf(r), ext |-> loc[r].ext,
                    data |-> DataOf(r), size |-> 0]
       IN IF writesOriginal(p)
          THEN \E ok \in BOOLEAN :
                 IF ok
                 THEN /\ originals' = (originals \ FileAt(p.dir, ShaOf(r), loc[r].ext))
                                         \cup {file}
                      /\ loc' = [loc EXCEPT ![r].wrote = @ \cup {"original"}]
                      /\ pc' = [pc EXCEPT ![r] = "writing"]
                      /\ UNCHANGED <<out, tmpFiles>>
                 ELSE /\ Throw(r, "write failed")
                      /\ UNCHANGED <<originals, loc>>
          ELSE /\ loc' = [loc EXCEPT ![r].bytes =
                            IF IsVideo(r) THEN @
                            ELSE StatSize(p.dir, ShaOf(r), loc[r].ext)]
               /\ pc' = [pc EXCEPT ![r] = "thumbcheck"]
               /\ UNCHANGED <<originals, out, tmpFiles>>
    /\ UNCHANGED <<meta, today, thumbs, odirs, tdirs, inp, st>>

\* The write of the original completes: all the bytes are in the file.
writeCompletes(r) ==
    /\ pc[r] = "writing"
    /\ LET p == PathsOf(r)
           file == [dir |-> p.dir, sha |-> ShaOf(r), ext |-> loc[r].ext,
                    data |-> DataOf(r), size |-> DataLen(DataOf(r))]
       IN originals' = (originals \ FileAt(p.dir, ShaOf(r), loc[r].ext))
                          \cup {file}
    /\ loc' = [loc EXCEPT ![r].bytes = DataLen(DataOf(r))]
    /\ pc' = [pc EXCEPT ![r] = "thumbcheck"]
    /\ UNCHANGED <<meta, today, thumbs, odirs, tdirs, tmpFiles, inp, st, out>>

AfterThumb(r) == IF IsVideo(r) THEN "cleanup" ELSE "respond"

\* A check that never finds the file.
accessFails(path) == FALSE
\* A check that always finds one.
accessSucceeds(path) == TRUE
\* thumbExists: fs.access(filePath) succeeds when the file is there.
access(path) == path \in thumbs

\* if (!(await this.thumbExists(paths.thumbPath)))
thumbExists(r) ==
    /\ pc[r] = "thumbcheck"
    /\ pc' = [pc EXCEPT ![r] =
                IF access(PathsOf(r).thumb) THEN AfterThumb(r) ELSE "thumbgen"]
    /\ UNCHANGED <<meta, today, fsys, tmpFiles, inp, st, loc, out>>

\* A thumbnail taken from the normalizer's intermediate file.
thumbnailInputIntermediate(r) == MidOf(r)
\* What the thumbnail is made from: the image normalizer hands sharp its
\* normalized buffer, the video normalizer hands ffmpeg `-i originalPath`.
thumbnailInput(r) ==
    IF IsVideo(r) THEN PathsOf(r).originalKey ELSE <<"buffer", r>>

\* The input can be read: a file that is there, or the buffer in memory.
Readable(input) ==
    \/ input \in tmpFiles
    \/ \E f \in originals : input = buildStorageKey("o", f.dir, f.sha, f.ext)
    \/ \E r \in Req : input = <<"buffer", r>>

\* generateThumbnail: sharp on the buffer, ffmpeg on the stored original;
\* loc.thumbFrom notes what was read, nothing reads it.
generateThumbnail(r) ==
    /\ pc[r] = "thumbgen"
    /\ \E ok \in BOOLEAN :
         IF ok /\ Readable(thumbnailInput(r))
         THEN /\ thumbs' = thumbs \cup {PathsOf(r).thumb}
              /\ loc' = [loc EXCEPT ![r] =
                           [Invoke(@, "thumb") EXCEPT
                              !.wrote = @ \cup {"thumb"},
                              !.thumbFrom = Some(thumbnailInput(r))]]
              /\ pc' = [pc EXCEPT ![r] = AfterThumb(r)]
              /\ UNCHANGED <<out, tmpFiles>>
         ELSE /\ loc' = [loc EXCEPT ![r] = Invoke(@, "thumb")]
              /\ Throw(r, "thumbnail failed")
              /\ UNCHANGED thumbs
    /\ UNCHANGED <<meta, today, originals, odirs, tdirs, inp, st>>

\* processVideo's tail: unlink(normalizedPath), then the size.
videoCleanup(r) ==
    /\ pc[r] = "cleanup"
    /\ tmpFiles' = tmpFiles \ {MidOf(r)}
    /\ LET p == PathsOf(r) IN
       loc' = [loc EXCEPT ![r].bytes =
                 IF p.isNew THEN DataLen(DataOf(r))
                 ELSE StatSize(p.dir, ShaOf(r), loc[r].ext)]
    /\ pc' = [pc EXCEPT ![r] = "respond"]
    /\ UNCHANGED <<meta, today, fsys, inp, st, out>>

\* extToMime of the normalizers.
extToMime(ext) ==
    CASE ext = "jpg" -> "image/jpeg"
      [] ext = "png" -> "image/png"
      [] ext = "webp" -> "image/webp"
      [] ext = "mp4" -> "video/mp4"
      [] OTHER -> "video/quicktime"

\* The dimensions of normalized data: normalized.info of sharp's toBuffer,
\* sharp(path).metadata() of the stored file, the probe of a video.
info(data) ==
    IF data.pix = "a" THEN [width |-> 4, height |-> 3]
    ELSE [width |-> 3, height |-> 4]

\* randomUUID(): a fresh identifier at every call.
randomUUID(r) == <<"uuid", r>>

\* A response that names no owner.
ownerAnonymous(token) == "anonymous"
\* ownerId: token.sub
ownerId(token) == token.sub

\* handleImageUpload / handleVideoUpload: the response, with meta.deduped.
UploadResponse(r) ==
    [mediaId |-> randomUUID(r),
     width |-> info(DataOf(r)).width,
     height |-> info(DataOf(r)).height,
     ownerId |-> ownerId(inp[r].token),
     kind |-> IF IsVideo(r) THEN "video" ELSE "image",
     status |-> "ready",
     mime |-> extToMime(loc[r].ext),
     bytes |-> loc[r].bytes,
     durationMs |-> IF IsVideo(r) THEN Some(durationOf(inp[r].body) * 1000) ELSE None,
     storageKeyOriginal |-> PathsOf(r).originalKey,
     storageKeyThumb |-> PathsOf(r).thumbKey,
     sha256 |-> ShaOf(r),
     deduped |-> ~PathsOf(r).isNew]

\* The normalizer returned: finally unlink(tmpPath), then resolve(response).
respond(r) ==
    /\ pc[r] = "respond"
    /\ tmpFiles' = tmpFiles \ {TmpOf(r)}
    /\ out' = [out EXCEPT ![r] = Resolve(@, UploadResponse(r))]
    /\ pc' = [pc EXCEPT ![r] = "done"]
    /\ UNCHANGED <<meta, today, fsys, inp, st, loc>>

(***************************************************************************)
(* MediaService.getMetadataBySha, asked once.  Its glob, stat and          *)
(* sharp(...).metadata() or ffprobe are taken in one step: originals are   *)
(* never removed, and what is at a path is the content its digest names.   *)
(***************************************************************************)
\* fast-glob `**/${sha}.*` under originalsDir.
\* A search that takes any original for a match.
findOriginalAny(sha) == originals
findOriginalBySha(sha) == {f \in originals : f.sha = sha}

extensionToKind(ext) ==
    IF ext \in {"jpg", "jpeg", "png", "webp"} THEN "image" ELSE "video"

extensionToMime(ext) ==
    CASE ext \in {"jpg", "jpeg"} -> "image/jpeg"
      [] ext = "png" -> "image/png"
      [] ext = "webp" -> "image/webp"
      [] ext = "mp4" -> "video/mp4"
      [] OTHER -> "video/quicktime"

\* throw new NotFoundException(`Media with SHA ${sha} not found`)
NotFound(sha) ==
    [error |-> "NotFound", sha256 |-> sha, kind |-> "", mime |-> "",
     bytes |-> 0, width |-> 0, height |-> 0,
     storageKeyOriginal |-> <<>>, storageKeyThumb |-> <<>>]

\* The MediaMetadataDto, without durationMs and createdAt.
MediaMetadata(sha, f) ==
    [error |-> "", sha256 |-> sha,
     kind |-> extensionToKind(f.ext),
     mime |-> extensionToMime(f.ext),
     bytes |-> f.size,
     width |-> info(f.data).width,
     height |-> info(f.data).height,
     storageKeyOriginal |-> buildStorageKey("o", f.dir, f.sha, f.ext),
     storageKeyThumb |->
         LET t == deriveThumbPathFromOriginal(f) IN
         buildStorageKey("t", t.dir, t.sha, "jpg")]

\* The digests asked for: those that requests which have ended had
\* computed, whether or not anything was stored under them.
Asked == UNION {loc[r].sha : r \in {q \in Req : pc[q] = "done"}}

\* matches[0] is whichever of the matches the glob lists first.
getMetadataBySha ==
    /\ meta = None
    /\ \E sha \in Asked :
          LET matches == findOriginalBySha(sha) IN
          IF matches = {}
          THEN meta' = Some(NotFound(sha))
          ELSE \E f \in matches : meta' = Some(MediaMetadata(sha, f))
    /\ UNCHANGED <<today, fsys, tmpFiles, pc, inp, st, loc, out>>

(***************************************************************************)
(* The system.  Every await is a step of its own, and the steps of the two *)
(* requests interleave freely with each other and with the clock.          *)
(***************************************************************************)
Step(r) ==
    \/ onFile(r) \/ onFinish(r) \/ onError(r)
    \/ onChunk(r) \/ onEnd(r) \/ onStreamError(r) \/ onRawError(r)
    \/ sniff(r)
    \/ imageNormalize(r)
    \/ videoProbe(r) \/ stripMetadata(r) \/ reencode(r) \/ hashFile(r)
    \/ resolvePathsForSha(r) \/ allocate(r)
    \/ storeOriginal(r) \/ writeCompletes(r)
    \/ thumbExists(r) \/ generateThumbnail(r)
    \/ videoCleanup(r) \/ respond(r)

Next ==
    \/ Tick
    \/ getMetadataBySha
    \/ \E r \in Req : handleUpload(r) \/ verifyThrows(r) \/ Step(r)

Spec == Init /\ [][Next]_vars

\* The same program where every request keeps being served: the event loop
\* runs each callback that is ready, the body stream delivers its next chunk,
\* ends or breaks, and every tool invocation and file operation returns.
FairSpec == Spec /\ \A r \in Req : WF_vars(Step(r))

(***************************************************************************)
(* Vocabulary of the properties.                                           *)
(***************************************************************************)
Done(r) == pc[r] = "done"
Resolved(r) == out[r].settled = "resolved"
Rejected(r) == out[r].settled = "rejected"
RejectedWith(r, err) == Rejected(r) /\ out[r].error = err
ResponseOf(r) == CHOOSE x \in out[r].response : TRUE

\* Two requests whose normalizers produced byte-identical output.
SameNormalized(r1, r2) ==
    /\ loc[r1].data # None
    /\ loc[r1].data = loc[r2].data

\* min(globalMaxUploadBytes, claim.maxSize ?? globalMaxUploadBytes)
Ceiling(r) ==
    LET m == inp[r].token.maxSize IN
    IF m = None THEN MaxUploadBytes
    ELSE Min(MaxUploadBytes, CHOOSE v \in m : TRUE)

C2_OneOriginalPerDigest ==
    \A f, g \in originals : (f.sha = g.sha /\ f.ext = g.ext) => f.dir = g.dir

(***************************************************************************)
(* C3: when two uploads of identical normalized content both pass the      *)
(* existence check as not found, then after both have finished there is a  *)
(* single original for that digest+extension, holding the normalized       *)
(* content, and both uploads return the same storage keys and digest.      *)
(***************************************************************************)
C3_BenignRace ==
    \A r1, r2 \in Req :
        (/\ r1 # r2 /\ Resolved(r1) /\ Resolved(r2)
         /\ SameNormalized(r1, r2)
         /\ PathsOf(r1).isNew /\ PathsOf(r2).isNew) =>
            /\ Cardinality(findExistingOriginal(ShaOf(r1), loc[r1].ext)) = 1
            /\ \A f \in findExistingOriginal(ShaOf(r1), loc[r1].ext) :
                   f.data = DataOf(r1)
            /\ ResponseOf(r1).sha256 = ResponseOf(r2).sha256
            /\ ResponseOf(r1).storageKeyOriginal = ResponseOf(r2).storageKeyOriginal
            /\ ResponseOf(r1).storageKeyThumb = ResponseOf(r2).storageKeyThumb

C5_AbortedAtOverflow ==
    \A r \in Req :
        /\ st[r].written <= inp[r].hardLimit
        /\ st[r].received > inp[r].hardLimit => pc[r] # "streaming"

(***************************************************************************)
(* C6: whenever processing of a request has ended, by success or by any    *)
(* failure, the request's temp file no longer exists.                      *)
(***************************************************************************)
C6_TempFileRemoved ==
    \A r \in Req : Done(r) => TmpOf(r) \notin tmpFiles

(***************************************************************************)
(* C7: whenever processVideo has ended, by returning or by throwing, the   *)
(* intermediate file it created in the temp directory no longer exists.    *)
(***************************************************************************)
C7_IntermediateRemoved ==
    \A r \in Req : (pc[r] \in {"respond", "done"}) => MidOf(r) \notin tmpFiles

(***************************************************************************)
(* C8: a video upload whose probed duration exceeds the claim's ceiling    *)
(* (maxVideoSec, 60 when absent) has failed once it has been probed, with  *)
(* no remux, re-encode or thumbnail tool invoked and no original or        *)
(* thumbnail written.                                                      *)
(***************************************************************************)
C8_TooLongFailsBeforeTranscode ==
    \A r \in Req :
        (/\ IsVideo(r) /\ loc[r].tools["probe"] > 0
         /\ \E d \in inp[r].body.dur :
               d > Coalesce(inp[r].token.maxVideoSec, DefaultMaxVideoSec)) =>
            /\ Done(r) /\ Rejected(r)
            /\ out[r].error \in {"PayloadTooLarge", "InternalError"}
            /\ loc[r].tools["remux"] = 0
            /\ loc[r].tools["reencode"] = 0
            /\ loc[r].tools["thumb"] = 0
            /\ loc[r].wrote = {}

\* 15 seconds probed against a ceiling of 10: payload too large.
C8_Witness ==
    \E r \in Req :
        /\ inp[r].token = VideoToken(Some(10)) /\ inp[r].body = Clip(15)
        /\ loc[r].tools["probe"] = 1
        /\ Done(r) /\ RejectedWith(r, "PayloadTooLarge")
        /\ loc[r].wrote = {} /\ originals = {} /\ thumbs = {}

(***************************************************************************)
(* C9: a request whose body holds a second file field is aborted with the  *)
(* bad-request outcome: it never completes successfully on the first file. *)
(***************************************************************************)
C9_SecondFileAborts ==
    \A r \in Req : inp[r].nFiles >= 2 => ~Resolved(r)

(***************************************************************************)
(* C10: two requests with the same body bytes and the same claim, whatever *)
(* filename and content type each declares, and neither cut short by a     *)
(* broken transfer or a failing tool, end alike: same accept/reject        *)
(* decision, same error kind, same detected MIME, and, the tools having    *)
(* taken the same route, the same digest; where one followed the other,    *)
(* the same storage keys.                                                  *)
(***************************************************************************)
Undisturbed(r) == Done(r) /\ st[r].parsed /\ out[r].error # "InternalError"

SameUpload(r1, r2) ==
    /\ inp[r1].token = inp[r2].token
    /\ inp[r1].body = inp[r2].body
    /\ inp[r1].nFiles = inp[r2].nFiles

\* The remux worked for both or the fallback re-encode ran for both.
SameRoute(r1, r2) == loc[r1].tools["reencode"] = loc[r2].tools["reencode"]

C10_DeclaredMetadataIgnored ==
    \A r1, r2 \in Req :
        (r1 # r2 /\ Undisturbed(r1) /\ Undisturbed(r2) /\ SameUpload(r1, r2)) =>
            /\ out[r1].settled = out[r2].settled
            /\ out[r1].error = out[r2].error
            /\ loc[r1].detected = loc[r2].detected
            /\ (Resolved(r1) /\ SameRoute(r1, r2)) =>
                   ResponseOf(r1).sha256 = ResponseOf(r2).sha256
            /\ (Resolved(r1) /\ SameRoute(r1, r2) /\ r1 \in inp[r2].after) =>
                   /\ ResponseOf(r1).storageKeyOriginal = ResponseOf(r2).storageKeyOriginal
                   /\ ResponseOf(r1).storageKeyThumb = ResponseOf(r2).storageKeyThumb

\* The same picture sent as photo.png image/png and then as clip.mp4
\* video/mp4 under an image claim: accepted both times, under the same keys.
C10_Witness ==
    /\ SameUpload(1, 2) /\ inp[1].declared # inp[2].declared
    /\ 1 \in inp[2].after /\ Resolved(2)
    /\ DetectedOf(2).mime = "image/jpeg"
    /\ ResponseOf(1).storageKeyOriginal = ResponseOf(2).storageKeyOriginal

(***************************************************************************)
(* The steps of processIncomingFile a request can be at.                   *)
(***************************************************************************)
Normalizing == {"image", "probe", "strip", "reencode", "hash"}
Persisting == {"resolve", "allocate", "store", "writing", "thumbcheck", "thumbgen",
               "cleanup", "respond"}
AllowList(kind) == IF kind = "image" THEN AllowedImageMime ELSE AllowedVideoMime
ToolsRun(r) == {t \in DOMAIN loc[r].tools : loc[r].tools[t] > 0}

(***************************************************************************)
(* C11: a normalizer runs only for a request whose sniffed MIME type is in *)
(* the allow-list of the claim's kind; a sniffed type outside the list     *)
(* ends the request as unsupported media type, before any tool, with a     *)
(* message other than the one of a type that cannot be detected; and the   *)
(* normalizer is the one of the claim's kind: an image claim never runs    *)
(* the video tools, a video claim never runs sharp.                        *)
(***************************************************************************)
C11_NormalizerOnlyForAllowedMime ==
    \A r \in Req :
        /\ (pc[r] \in Normalizing \cup Persisting \/ ToolsRun(r) # {}) =>
              /\ loc[r].detected # None
              /\ DetectedOf(r).mime \in AllowList(inp[r].token.kind)
        /\ (loc[r].detected # None
             /\ DetectedOf(r).mime \notin AllowList(inp[r].token.kind)) =>
              /\ Done(r) /\ RejectedWith(r, "UnsupportedMediaType")
              /\ out[r].message = "MIME type not allowed"
              /\ ToolsRun(r) = {} /\ loc[r].sha = None
        /\ out[r].message = "Unable to detect file type" =>
              /\ loc[r].detected = None /\ ToolsRun(r) = {}
              /\ RejectedWith(r, "UnsupportedMediaType")
        /\ inp[r].token.kind = "image" =>
              /\ ToolsRun(r) \subseteq {"sharp", "thumb"}
              /\ pc[r] \notin {"probe", "strip", "reencode", "cleanup"}
        /\ inp[r].token.kind = "video" =>
              /\ "sharp" \notin ToolsRun(r)
              /\ pc[r] # "image"

\* An image claim with an MP4 body is turned away, and so is a video claim
\* with a JPEG body, although sharp could have handled its bytes.
C11_Witness ==
    \E r1, r2 \in Req :
        /\ inp[r1].token.kind = "image" /\ inp[r1].body.magic = "mp4"
        /\ Done(r1) /\ out[r1].message = "MIME type not allowed"
        /\ inp[r2].token.kind = "video" /\ inp[r2].body.magic = "jpg"
        /\ Done(r2) /\ out[r2].message = "MIME type not allowed"

(***************************************************************************)
(* What is wrong with a request before any normalizer looks at it: no file *)
(* part, an empty file, a file above the ceiling, bytes whose type cannot  *)
(* be detected, or a detected type outside the allow-list of the kind.     *)
(***************************************************************************)
ValidationMessages ==
    {"No file field provided", "Uploaded file is empty",
     "File exceeds allowed size", "Unable to detect file type",
     "MIME type not allowed"}

ValidationFault(r) ==
    /\ pc[r] \notin {"idle", "refused"}
    /\ \/ inp[r].nFiles = 0
       \/ inp[r].body.len = 0
       \/ inp[r].body.len > Ceiling(r)
       \/ MimeOfMagic(inp[r].body.magic) = None
       \/ \E d \in MimeOfMagic(inp[r].body.magic) :
              d.mime \notin AllowList(inp[r].token.kind)

(***************************************************************************)
(* C12: an upload that fails for a validation or size reason (no file      *)
(* field, empty file, file above the ceiling, undetectable type, type not  *)
(* allowed) has run no normalizer and no external tool, and has created    *)
(* nothing under the originals and thumbnails roots: no file and no bucket *)
(* directory.  While no request has created anything, both trees are as    *)
(* they were at the start.                                                 *)
(***************************************************************************)
C12_ValidationFailureLeavesTrees ==
    /\ \A r \in Req :
          /\ ValidationFault(r) =>
                /\ ToolsRun(r) = {} /\ loc[r].wrote = {}
                /\ loc[r].sha = None /\ loc[r].paths = None
                /\ pc[r] \notin Normalizing \cup Persisting
                /\ ~Resolved(r)
          /\ out[r].message \in ValidationMessages =>
                /\ Done(r) /\ Rejected(r)
                /\ ToolsRun(r) = {} /\ loc[r].wrote = {}
                /\ loc[r].sha = None /\ loc[r].paths = None
    /\ (\A r \in Req : loc[r].wrote = {}) =>
          originals = {} /\ thumbs = {} /\ odirs = {} /\ tdirs = {}

\* Two uploads turned away, one as too large and one as not allowed, and the
\* trees still empty.
C12_Witness ==
    \E r1, r2 \in Req :
        /\ Done(r1) /\ out[r1].message = "File exceeds allowed size"
        /\ Done(r2) /\ out[r2].message = "MIME type not allowed"
        /\ originals = {} /\ thumbs = {} /\ odirs = {} /\ tdirs = {}

(***************************************************************************)
(* The states of a request.  The type check follows the sniff without an   *)
(* await, so a request leaves "Sniffing" through it: to "Normalizing" when *)
(* the type is allowed, to "Failed" when it is not.  "Persisted" is a      *)
(* request whose original is in place.                                     *)
(***************************************************************************)
PhaseAt(p, o) ==
    CASE p = "idle" -> "Idle"
      [] p = "parsing" -> "Authenticated"
      [] p \in {"streaming", "stalled"} -> "Streaming"
      [] p = "sniffing" -> "Sniffing"
      [] p \in Normalizing \cup {"resolve", "allocate", "store", "writing"}
            -> "Normalizing"
      [] p \in {"thumbcheck", "thumbgen", "cleanup", "respond"} -> "Persisted"
      [] p = "done" /\ o.settled = "resolved" -> "Responded"
      [] p = "refused" -> "Unauthenticated"
      [] OTHER -> "Failed"

Phase(r) == PhaseAt(pc[r], out[r])

NextPhase(ph) ==
    CASE ph = "Idle" -> "Authenticated"
      [] ph = "Authenticated" -> "Streaming"
      [] ph = "Streaming" -> "Sniffing"
      [] ph = "Sniffing" -> "Normalizing"
      [] ph = "Normalizing" -> "Persisted"
      [] ph = "Persisted" -> "Responded"
      [] OTHER -> ph

\* A step of request r that ends it in failure.
FailStep(r) == Step(r) /\ pc'[r] = "done" /\ out'[r].settled = "rejected"

\* The whole file part has been received and is in the temp file.
Streamed(r) ==
    /\ st[r].received = inp[r].body.len
    /\ st[r].written = inp[r].body.len
    /\ st[r].totalBytes = inp[r].body.len
    /\ st[r].parsed

(***************************************************************************)
(* C13: the steps of one request are strictly sequential.  A request moves *)
(* only from a state to the next one of Authenticated, Streaming,          *)
(* Sniffing (with the type check), Normalizing, Persisted, Responded, or   *)
(* to Failed, and never out of Responded or Failed; sniffing and           *)
(* normalizing happen only once the whole body is in the temp file, which  *)
(* is still there; a request that succeeded has a detected and allowed     *)
(* type, a digest, resolved paths and its original and thumbnail were in   *)
(* place; and a failing step exists in the states where the failure does   *)
(* not depend on the input.                                                *)
(***************************************************************************)
C13_StepsSequential ==
    /\ [](\A r \in Req :
            /\ Phase(r) \in {"Sniffing", "Normalizing", "Persisted"} =>
                  Streamed(r) /\ TmpOf(r) \in tmpFiles
            /\ Phase(r) \in {"Normalizing", "Persisted", "Responded"} =>
                  /\ Streamed(r)
                  /\ loc[r].detected # None
                  /\ DetectedOf(r).mime \in AllowList(inp[r].token.kind)
            /\ Phase(r) \in {"Persisted", "Responded"} =>
                  /\ loc[r].data # None /\ loc[r].sha # None
                  /\ loc[r].paths # None
            /\ Phase(r) = "Responded" =>
                  /\ out[r].response # None
                  /\ ToolsRun(r) \cap {"sharp", "remux"} # {}
            /\ pc[r] \in {"parsing", "streaming", "probe", "reencode", "hash",
                          "allocate", "thumbgen"} => ENABLED FailStep(r))
    /\ [][\A r \in Req :
            /\ PhaseAt(pc'[r], out'[r]) \in
                  {Phase(r), NextPhase(Phase(r)), "Failed", "Unauthenticated"}
            /\ Phase(r) \in {"Idle", "Responded"} =>
                  PhaseAt(pc'[r], out'[r]) # "Failed"
            /\ PhaseAt(pc'[r], out'[r]) = "Unauthenticated" =>
                  Phase(r) \in {"Idle", "Unauthenticated"}]_vars

\* One request went through every state and was answered; the other failed
\* after its original was in place, when its thumbnail could not be made.
C13_Witness ==
    \E r1, r2 \in Req :
        /\ Phase(r1) = "Responded"
        /\ Phase(r2) = "Failed" /\ "original" \in loc[r2].wrote
        /\ out[r2].message = "thumbnail failed"

(***************************************************************************)
(* C14: nothing is retried but the video strip's fallback.  In a video     *)
(* upload the probe runs at most once, the remux exactly once (for every   *)
(* request that got past the probe), the re-encode at most once and only   *)
(* after the remux has failed and left no output, the thumbnail generation *)
(* at most once; in an image upload sharp normalizes at most once, the     *)
(* thumbnail is generated at most once and no video tool runs.             *)
(***************************************************************************)
C14_NoRetryButFallback ==
    \A r \in Req :
        /\ \A t \in DOMAIN loc[r].tools : loc[r].tools[t] <= 1
        /\ pc[r] = "reencode" =>
              /\ loc[r].tools["remux"] = 1 /\ loc[r].tools["reencode"] = 0
              /\ loc[r].data = None /\ MidOf(r) \notin tmpFiles
        /\ loc[r].tools["reencode"] = 1 =>
              /\ loc[r].tools["remux"] = 1
              /\ loc[r].data # None => DataOf(r).how = "x264"
        /\ (loc[r].data # None /\ IsVideo(r) /\ DataOf(r).how = "copy") =>
              loc[r].tools["remux"] = 1 /\ loc[r].tools["reencode"] = 0
        /\ (IsVideo(r) /\ pc[r] \in {"hash"} \cup Persisting) =>
              loc[r].tools["probe"] = 1 /\ loc[r].tools["remux"] = 1
        /\ (IsVideo(r) /\ Resolved(r)) =>
              loc[r].tools["probe"] = 1 /\ loc[r].tools["remux"] = 1
        /\ (~IsVideo(r) /\ Resolved(r)) =>
              /\ loc[r].tools["sharp"] = 1
              /\ ToolsRun(r) \subseteq {"sharp", "thumb"}

\* A video answered after the remux failed and the re-encode took over, and
\* another answered after the remux alone.
C14_Witness ==
    \E r1, r2 \in Req :
        /\ IsVideo(r1) /\ Resolved(r1)
        /\ loc[r1].tools["remux"] = 1 /\ loc[r1].tools["reencode"] = 1
        /\ IsVideo(r2) /\ Resolved(r2)
        /\ loc[r2].tools["remux"] = 1 /\ loc[r2].tools["reencode"] = 0

(***************************************************************************)
(* C15: when the remux has failed and the fallback re-encode fails too,    *)
(* the upload is over and rejected: no digest is computed, no storage      *)
(* location is resolved or allocated, and the request writes no original,  *)
(* no thumbnail and no bucket directory.                                   *)
(***************************************************************************)
FallbackFailed(r) == loc[r].tools["reencode"] >= 1 /\ loc[r].data = None

C15_FallbackFailureTerminal ==
    \A r \in Req :
        FallbackFailed(r) =>
            /\ Done(r) /\ RejectedWith(r, "InternalError")
            /\ loc[r].tools["remux"] = 1
            /\ loc[r].sha = None /\ loc[r].paths = None
            /\ loc[r].wrote = {} /\ loc[r].tools["thumb"] = 0
            /\ TmpOf(r) \notin tmpFiles

\* Both ffmpeg runs of a video upload failed.
C15_Witness ==
    \E r \in Req :
        /\ IsVideo(r) /\ FallbackFailed(r)
        /\ Done(r) /\ out[r].message = "ffmpeg failed"

(***************************************************************************)
(* C16: ensuring the thumbnail is idempotent.  An upload that starts after *)
(* an upload of the same digest was answered (whose thumbnail is therefore *)
(* in place) resolves to the same thumbnail path, finds the thumbnail      *)
(* there, never generates one and never writes one; the thumbnail stays.   *)
(* At any moment, a request that checks for a thumbnail that is there      *)
(* goes on without generating, and no step removes a thumbnail.            *)
(***************************************************************************)
C16_ThumbnailEnsureIdempotent ==
    /\ [](\A r1, r2 \in Req :
            (/\ r1 \in inp[r2].after
             /\ loc[r2].sha # None /\ loc[r2].sha = loc[r1].sha) =>
                /\ PathsOf(r1).thumb \in thumbs
                /\ loc[r2].tools["thumb"] = 0
                /\ "thumb" \notin loc[r2].wrote
                /\ pc[r2] # "thumbgen"
                /\ loc[r2].paths # None =>
                      PathsOf(r2).thumb = PathsOf(r1).thumb)
    /\ [][/\ thumbs \subseteq thumbs'
          /\ \A r \in Req :
                (pc[r] = "thumbcheck" /\ PathsOf(r).thumb \in thumbs) =>
                    /\ pc'[r] \in {"thumbcheck", AfterThumb(r)}
                    /\ loc'[r] = loc[r]]_vars

\* A video uploaded again after it was answered: the first upload made the
\* thumbnail, the second was answered without making one.
C16_Witness ==
    \E r1, r2 \in Req :
        /\ r1 \in inp[r2].after /\ Resolved(r2) /\ IsVideo(r2)
        /\ loc[r2].sha = loc[r1].sha
        /\ loc[r1].tools["thumb"] = 1 /\ loc[r2].tools["thumb"] = 0
        /\ PathsOf(r2).thumb \in thumbs

(***************************************************************************)
(* C18: every storage location resolvePathsForSha returns has the original *)
(* key o/{bucket}/{digest}.{ext} and the thumbnail key                     *)
(* t/{bucket}/{digest}.jpg with the same date bucket and the same digest   *)
(* in both, the digest being the one asked for and the thumbnail extension *)
(* always jpg; the keys are the original and thumbnail paths relative to   *)
(* their roots; a new location is in the bucket of the day it was          *)
(* allocated, a reused one where the original is.                          *)
(***************************************************************************)
C18_StorageKeysShape ==
    \A r \in Req :
        loc[r].paths # None =>
            LET p == PathsOf(r) IN
            /\ p.dir \in 1..MaxDay
            /\ p.originalKey = <<"o", p.dir, ShaOf(r), loc[r].ext>>
            /\ p.thumbKey = <<"t", p.dir, ShaOf(r), "jpg">>
            /\ p.thumb = [dir |-> p.dir, sha |-> ShaOf(r)]
            /\ p.originalKey[2] = p.thumbKey[2]
            /\ p.originalKey[3] = p.thumbKey[3]
            /\ p.isNew => p.dir = loc[r].day
            /\ ~p.isNew => \E f \in originals :
                   f.dir = p.dir /\ f.sha = ShaOf(r) /\ f.ext = loc[r].ext

\* A location resolved to the bucket of an earlier day, where the original
\* of the digest is.
C18_Witness ==
    \E r \in Req :
        /\ loc[r].paths # None /\ ~PathsOf(r).isNew
        /\ PathsOf(r).dir # loc[r].day
        /\ PathsOf(r).thumbKey = <<"t", PathsOf(r).dir, ShaOf(r), "jpg">>

(***************************************************************************)
(* C19: every successful response names the claim's subject as owner and   *)
(* the claim's kind, has status "ready", carries the digest of the         *)
(* normalized output, which is the digest in both storage keys, has a null *)
(* duration exactly when the kind is image, and has a media id that is not *)
(* the digest and differs from the media id of every other response, also  *)
(* of one for the same content.                                            *)
(***************************************************************************)
C19_ResponseFields ==
    \A r \in Req :
        Resolved(r) =>
            LET x == ResponseOf(r) IN
            /\ x.ownerId = inp[r].token.sub
            /\ x.kind = inp[r].token.kind
            /\ x.status = "ready"
            /\ x.sha256 = Sha256(DataOf(r))
            /\ x.storageKeyOriginal[3] = x.sha256
            /\ x.storageKeyThumb[3] = x.sha256
            /\ (x.durationMs = None) <=> (x.kind = "image")
            /\ x.mediaId # x.sha256
            /\ \A q \in Req \ {r} :
                   Resolved(q) => ResponseOf(q).mediaId # x.mediaId

\* The same clip uploaded twice under a video claim: one digest, two media
\* ids, the owner of the claim, a duration.
C19_Witness ==
    \E r1, r2 \in Req :
        /\ r1 # r2 /\ Resolved(r1) /\ Resolved(r2) /\ IsVideo(r1)
        /\ ResponseOf(r1).sha256 = ResponseOf(r2).sha256
        /\ ResponseOf(r1).mediaId # ResponseOf(r2).mediaId
        /\ ResponseOf(r1).ownerId = "bob"
        /\ ResponseOf(r1).durationMs # None

(***************************************************************************)
(* The credential of a request, read off its Authorization header.         *)
(***************************************************************************)
Accepted(r) == pc[r] \notin {"idle", "refused"}
Pieces(r) == Coalesce(inp[r].header, <<>>)

\* A header of the form `Bearer <token>`: the scheme, a space, a token.
IsBearerHeader(r) ==
    /\ Len(Pieces(r)) >= 2
    /\ Pieces(r)[1].text \in {"Bearer", "bearer", "BEARER"}
    /\ Pieces(r)[2].text # ""

\* The token is a JWT whose signature verifies and that has not expired.
TokenVerifies(r) ==
    /\ Pieces(r)[2].jwt # None
    /\ \A j \in Pieces(r)[2].jwt :
          /\ j.sig = "valid"
          /\ j.claims.exp.type = "number" => j.claims.exp.n > Now
          /\ j.claims.exp.type \in {"number", "undefined"}

ClaimsIn(r) == (CHOOSE j \in Pieces(r)[2].jwt : TRUE).claims

\* sub a non-empty string, kind image or video, exp a number, and the
\* optional maxSize and maxVideoSec numbers when they are there.
ClaimsWellFormed(r) ==
    LET c == ClaimsIn(r) IN
    /\ c.sub.type = "string" /\ c.sub.v # ""
    /\ c.kind.type = "string" /\ c.kind.v \in {"image", "video"}
    /\ c.exp.type = "number"
    /\ c.maxSize.type \in {"number", "undefined"}
    /\ c.maxVideoSec.type \in {"number", "undefined"}

Credible(r) == IsBearerHeader(r) /\ TokenVerifies(r) /\ ClaimsWellFormed(r)

TooLongClaimed(r) ==
    /\ ClaimsIn(r).maxVideoSec.type = "number"
    /\ ClaimsIn(r).maxVideoSec.n > AbsoluteMaxVideoSec

(***************************************************************************)
(* C20: handleUpload is reached only with a claim the verifier yielded for *)
(* a present `Bearer <token>` header whose token verifies and carries a    *)
(* non-empty string sub, a kind of image or video and a numeric exp, the   *)
(* claim being what the token carries, with no maxVideoSec above 60.  A    *)
(* request with a missing or malformed header, or an invalid or expired    *)
(* token, is answered as unauthorized; one whose credential is in order    *)
(* but claims a maxVideoSec above 60 as a bad request; either way nothing  *)
(* of the upload runs.  No other request is refused.                       *)
(***************************************************************************)
C20_VerifierYieldsClaim ==
    \A r \in Req :
        /\ Accepted(r) =>
              /\ Credible(r) /\ ~TooLongClaimed(r)
              /\ inp[r].token.sub = ClaimsIn(r).sub.v
              /\ inp[r].token.kind = ClaimsIn(r).kind.v
              /\ inp[r].token.exp = ClaimsIn(r).exp.n
              /\ \A s \in inp[r].token.maxVideoSec :
                    s <= AbsoluteMaxVideoSec /\ s = ClaimsIn(r).maxVideoSec.n
        /\ pc[r] = "refused" =>
              /\ Rejected(r) /\ st[r] = NoStream /\ loc[r] = NoLocals
              /\ TmpOf(r) \notin tmpFiles
              /\ ~Credible(r) => out[r].error = "Unauthorized"
              /\ Credible(r) =>
                    TooLongClaimed(r) /\ out[r].error = "BadRequest"

\* A video claim of 61 seconds was refused as a bad request while one of 60
\* seconds is being handled.
C20_Witness ==
    \E r1, r2 \in Req :
        /\ pc[r1] = "refused" /\ out[r1].error = "BadRequest"
        /\ inp[r1].header = Bearer(VideoToken(Some(AbsoluteMaxVideoSec + 1)))
        /\ Accepted(r2)
        /\ inp[r2].token.maxVideoSec = Some(AbsoluteMaxVideoSec)

(***************************************************************************)
(* C17: the metadata asked for the digest of a successful image upload     *)
(* agrees with that upload's response: the same width and height, the      *)
(* same MIME type (the one of the stored extension), the same byte size,   *)
(* and the same original and thumbnail storage keys.                       *)
(***************************************************************************)
C17_MetadataRoundTrip ==
    \A m \in meta : \A r \in Req :
        (Resolved(r) /\ ~IsVideo(r) /\ ResponseOf(r).sha256 = m.sha256
            /\ m.error = "") =>
            LET x == ResponseOf(r) IN
            /\ m.kind = "image"
            /\ m.width = x.width /\ m.height = x.height
            /\ m.mime = x.mime /\ m.mime = extToMime(loc[r].ext)
            /\ m.bytes = x.bytes
            /\ m.storageKeyOriginal = x.storageKeyOriginal
            /\ m.storageKeyThumb = x.storageKeyThumb

(***************************************************************************)
(* The failure classes of an upload, by what went wrong.                   *)
(***************************************************************************)
FailureClass(r) ==
    CASE out[r].message = "File exceeds allowed size" -> "oversize"
      [] out[r].message = "Video duration exceeds allowed" -> "duration exceeded"
      [] out[r].message \in {"Unable to detect file type", "MIME type not allowed",
                             "Unsupported image extension",
                             "Unsupported video extension"} -> "unsupported type"
      [] out[r].message \in {"sharp failed", "ffprobe failed", "ffmpeg failed",
                             "read failed", "mkdir failed", "write failed",
                             "thumbnail failed"} -> "processing failure"
      [] OTHER -> "other"

FailureClasses == {"oversize", "duration exceeded", "unsupported type",
                   "processing failure"}

\* C21: a failed upload carries exactly one error, and two uploads that fail
\* in different classes (oversize, duration exceeded, unsupported type,
\* processing failure) carry different error categories, whatever the
\* message texts are.
C21_FailureClassesByCategory ==
    /\ \A r \in Req :
          Rejected(r) => out[r].error # "" /\ out[r].response = None
    /\ \A r1, r2 \in Req :
          /\ Rejected(r1) /\ Rejected(r2)
          /\ FailureClass(r1) \in FailureClasses
          /\ FailureClass(r2) \in FailureClasses
          /\ FailureClass(r1) # FailureClass(r2)
          => out[r1].error # out[r2].error

(***************************************************************************)
(* Requests that a failing disk operation ended: the write stream on the   *)
(* temp file, the mkdir of the bucket, the write of the original or of the *)
(* thumbnail.                                                              *)
(***************************************************************************)
DiskFault(r) ==
    \/ st[r].pipelineError \in DiskErrors
    \/ out[r].message \in {"mkdir failed", "write failed", "thumbnail failed"}

\* C22: an upload that a disk I/O failure ended (temp file, bucket
\* directory, original, thumbnail) is rejected with a server error, never
\* with a client error.
C22_DiskFailureIsServerError ==
    \A r \in Req :
        Done(r) /\ DiskFault(r) =>
            /\ Rejected(r)
            /\ out[r].error = "InternalError"
            /\ out[r].error \notin {"BadRequest", "PayloadTooLarge",
                                    "UnsupportedMediaType", "Unauthorized"}

(***************************************************************************)
(* What belongs to one request: its position, stream state, locals and     *)
(* promise, and its files in the tmp directory.                            *)
(***************************************************************************)
Mine(r) == <<pc[r], inp[r], st[r], loc[r], out[r]>>
TmpFilesOf(r) == tmpFiles \cap {TmpOf(r), MidOf(r)}

HoldsUpload == {"streaming", "sniffing", "image", "probe", "strip", "reencode",
                "hash", "resolve", "allocate", "store", "writing", "thumbcheck",
                "thumbgen", "cleanup", "respond"}
HoldsIntermediate == {"hash", "resolve", "allocate", "store", "writing",
                      "thumbcheck",
                      "thumbgen", "cleanup"}

\* Nothing with the digest of r's normalized content came from the other
\* request.
DifferentContents(r, q) == loc[q].sha = None \/ loc[q].sha # loc[r].sha

\* C23: concurrent requests are independent.  Each request has its own
\* temp file and its own video intermediate file, there for as long as the
\* request uses them whatever the other request does; a step that touches
\* the files of one request changes nothing of the other; and an upload
\* whose contents differ from the other's is answered as if it were alone:
\* stored new, in the bucket of its own day, with the size of its own data.
C23_RequestsIndependent ==
    /\ [](\A r \in Req :
            /\ TmpOf(r) # MidOf(r)
            /\ \A q \in Req \ {r} : {TmpOf(r), MidOf(r)} \cap {TmpOf(q), MidOf(q)} = {}
            /\ pc[r] \in HoldsUpload => TmpOf(r) \in tmpFiles
            /\ IsVideo(r) /\ pc[r] \in HoldsIntermediate => MidOf(r) \in tmpFiles
            /\ \A q \in Req \ {r} :
                  Resolved(r) /\ DifferentContents(r, q) =>
                     /\ ~ResponseOf(r).deduped
                     /\ PathsOf(r).isNew /\ PathsOf(r).dir = loc[r].day
                     /\ ResponseOf(r).bytes = DataLen(DataOf(r))
                     /\ {"original", "thumb"} \subseteq loc[r].wrote)
    /\ [][\A r \in Req :
            TmpFilesOf(r)' # TmpFilesOf(r) =>
               \A q \in Req \ {r} :
                  Mine(q)' = Mine(q) /\ TmpFilesOf(q)' = TmpFilesOf(q)]_vars

\* A video and a picture in flight together, each with its temp file, the
\* video with its intermediate file, both about to make their thumbnails.
C23_Witness ==
    /\ IsVideo(1) /\ ~IsVideo(2)
    /\ pc[1] = "thumbgen" /\ pc[2] = "thumbgen"
    /\ {TmpOf(1), MidOf(1), TmpOf(2)} \subseteq tmpFiles
    /\ DifferentContents(1, 2)

\* C24: every request terminates.  Once handleUpload has been called, its
\* promise eventually settles (the body stream ends or breaks, the tools
\* return); it settles once, what it settled with never changes; and a
\* request that has reached a normalizer leaves it only by its own steps.
C24_EveryRequestSettles ==
    /\ \A r \in Req : (pc[r] = "parsing") ~> (out[r].settled # "pending")
    /\ [][\A r \in Req :
            /\ out[r].settled # "pending" => out'[r] = out[r]
            /\ pc[r] \in Normalizing \cup Persisting /\ pc'[r] # pc[r] =>
                  /\ Step(r)
                  /\ pc'[r] \in Normalizing \cup Persisting \cup {"done"}]_vars

\* C25: a video's thumbnail is extracted from the stored original.  When
\* the extraction is about to run the original exists at the resolved
\* path; what ffmpeg read is that path, never the raw upload or the
\* intermediate file; and for a deduplicated upload the file at that path
\* is one the request did not write.
C25_VideoThumbnailFromOriginal ==
    \A r \in Req :
        /\ IsVideo(r) /\ pc[r] = "thumbgen" =>
              /\ FileAt(PathsOf(r).dir, ShaOf(r), loc[r].ext) # {}
              /\ Readable(PathsOf(r).originalKey)
              /\ ~PathsOf(r).isNew => "original" \notin loc[r].wrote
        /\ IsVideo(r) /\ loc[r].thumbFrom # None =>
              /\ loc[r].thumbFrom = {PathsOf(r).originalKey}
              /\ loc[r].thumbFrom \cap {TmpOf(r), MidOf(r)} = {}
              /\ FileAt(PathsOf(r).dir, ShaOf(r), loc[r].ext) # {}
              /\ \A f \in FileAt(PathsOf(r).dir, ShaOf(r), loc[r].ext) :
                    f.data.how \in {"copy", "x264"}
              /\ ~PathsOf(r).isNew => "original" \notin loc[r].wrote

\* A video that was deduplicated onto the other request's original and made
\* the thumbnail itself, from that original, and was answered.
C25_Witness ==
    \E r \in Req :
        /\ IsVideo(r) /\ Resolved(r)
        /\ ~PathsOf(r).isNew
        /\ loc[r].thumbFrom = {PathsOf(r).originalKey}
        /\ "thumb" \in loc[r].wrote

\* The request was handed to the image normalizer: an image claim whose
\* sniffed type passed the allow-list, past the call of processImage.
ImageNormalizerCalled(r) ==
    /\ ~IsVideo(r)
    /\ loc[r].detected # None
    /\ assertMimeAllowed(DetectedOf(r).mime, "image")
    /\ pc[r] \in Persisting \cup {"done"}

\* C26: the image normalizer takes jpg/jpeg, png and webp only.  With any
\* other detected extension the request fails as unsupported media type
\* before anything is decoded, hashed or written, and its temp file is
\* removed; what is stored is stored under jpg, png or webp, jpeg as jpg.
C26_ImageExtensionsOnly ==
    \A r \in Req :
        /\ ImageNormalizerCalled(r) /\ DetectedOf(r).ext \notin ImageExts =>
              /\ Done(r) /\ RejectedWith(r, "UnsupportedMediaType")
              /\ out[r].message = "Unsupported image extension"
              /\ ToolsRun(r) = {}
              /\ loc[r].data = None /\ loc[r].sha = None
              /\ loc[r].paths = None /\ loc[r].wrote = {}
              /\ TmpOf(r) \notin tmpFiles
        /\ out[r].message = "Unsupported image extension" =>
              ImageNormalizerCalled(r) /\ DetectedOf(r).ext \notin ImageExts
        /\ ~IsVideo(r) /\ loc[r].data # None =>
              /\ DetectedOf(r).ext \in {"jpg", "jpeg", "png", "webp"}
              /\ loc[r].ext \in {"jpg", "png", "webp"}
              /\ loc[r].ext = (IF DetectedOf(r).ext = "jpeg" THEN "jpg"
                               ELSE DetectedOf(r).ext)
    /\ \A f \in originals :
          f.data.how = "sharp" => f.ext \in {"jpg", "png", "webp"}

\* A GIF under an image claim of a deployment that allows image/gif: it got
\* through the allow-list and the normalizer turned it away.
C26_Witness ==
    \E r \in Req :
        /\ Done(r) /\ ImageNormalizerCalled(r)
        /\ DetectedOf(r).ext = "gif"
        /\ out[r].message = "Unsupported image extension"
        /\ TmpOf(r) \notin tmpFiles

\* The request was handed to the video normalizer and its probe returned.
VideoProbed(r) ==
    /\ IsVideo(r)
    /\ loc[r].detected # None
    /\ assertMimeAllowed(DetectedOf(r).mime, "video")
    /\ loc[r].tools["probe"] = 1
    /\ out[r].message # "ffprobe failed"

TooLong(r) == \E d \in inp[r].body.dur : d > MaxDurationSec(inp[r].token)

\* C27: the video normalizer probes, then checks the duration, then the
\* extension.  An extension other than mp4 and mov fails as unsupported
\* media type after the probe, before any remux or re-encode and with
\* nothing written; a video that is too long and of such an extension fails
\* with the duration error.
C27_VideoChecksInOrder ==
    \A r \in Req :
        /\ pc[r] \in {"strip", "reencode", "hash"} \cup Persisting =>
              /\ VideoProbed(r) \/ ~IsVideo(r)
              /\ IsVideo(r) => ~TooLong(r) /\ DetectedOf(r).ext \in {"mp4", "mov"}
        /\ out[r].message \in {"Video duration exceeds allowed",
                               "Unsupported video extension"} => VideoProbed(r)
        /\ VideoProbed(r) /\ ~TooLong(r) /\ DetectedOf(r).ext \notin {"mp4", "mov"} =>
              /\ Done(r) /\ RejectedWith(r, "UnsupportedMediaType")
              /\ out[r].message = "Unsupported video extension"
              /\ ToolsRun(r) = {"probe"}
              /\ loc[r].data = None /\ loc[r].sha = None
              /\ loc[r].paths = None /\ loc[r].wrote = {}
              /\ MidOf(r) \notin tmpFiles /\ TmpOf(r) \notin tmpFiles
        /\ VideoProbed(r) /\ TooLong(r) =>
              /\ Done(r) /\ RejectedWith(r, "PayloadTooLarge")
              /\ out[r].message = "Video duration exceeds allowed"
              /\ ToolsRun(r) = {"probe"}
              /\ loc[r].wrote = {}

\* A WebM clip longer than the claim's ceiling, in a deployment that allows
\* video/webm: both checks would fail, and the duration error is the one
\* the request got.
C27_Witness ==
    \E r \in Req :
        /\ Done(r) /\ VideoProbed(r)
        /\ TooLong(r) /\ DetectedOf(r).ext = "webm"
        /\ out[r].message = "Video duration exceeds allowed"

\* C28: getMetadataBySha(digest) fails with not-found exactly when no file
\* named {digest}.* is under the originals root; otherwise it answers from
\* one of the matching files, with kind and MIME type from that file's
\* extension, size from the file and both keys from where it is; and it
\* changes nothing in the storage tree or the tmp directory.
C28_MetadataNotFoundIffNoFile ==
    [][meta' # meta =>
         /\ meta = None
         /\ UNCHANGED <<originals, thumbs, odirs, tdirs, tmpFiles>>
         /\ \E m \in meta' :
              /\ meta' = {m}
              /\ m.sha256 \in Asked
              /\ (m.error = "NotFound") <=>
                    ~(\E f \in originals : f.sha = m.sha256)
              /\ m.error \in {"", "NotFound"}
              /\ m.error = "" =>
                    \E f \in originals :
                       /\ f.sha = m.sha256
                       /\ m.kind = (IF f.ext \in {"jpg", "jpeg", "png", "webp"}
                                    THEN "image" ELSE "video")
                       /\ m.mime = (CASE f.ext = "jpg" -> "image/jpeg"
                                      [] f.ext = "png" -> "image/png"
                                      [] f.ext = "webp" -> "image/webp"
                                      [] f.ext = "mp4" -> "video/mp4"
                                      [] f.ext = "mov" -> "video/quicktime")
                       /\ m.bytes = f.size
                       /\ m.storageKeyOriginal = <<"o", f.dir, f.sha, f.ext>>
                       /\ m.storageKeyThumb = <<"t", f.dir, f.sha, "jpg">>]_vars

\* Asked for the digest of an upload that failed before its original was
\* written, while the other upload's original is in the tree: not found.
C28_Witness ==
    \E m \in meta : \E r \in Req :
        /\ m.error = "NotFound"
        /\ Done(r) /\ Rejected(r) /\ loc[r].sha = {m.sha256}
        /\ originals # {}
        /\ \A f \in originals : f.sha # m.sha256

\* The files at the paths the storage keys name.
OriginalKeys == {buildStorageKey("o", f.dir, f.sha, f.ext) : f \in originals}
ThumbKeys == {buildStorageKey("t", t.dir, t.sha, "jpg") : t \in thumbs}

\* C29: whenever an upload has been answered with success, an original is
\* at the path storageKeyOriginal names and a thumbnail at the path
\* storageKeyThumb names, when the response is given and in every later
\* state, whatever further uploads do: no step removes a stored file.
C29_AnsweredKeysExist ==
    /\ [](\A r \in Req :
            Resolved(r) =>
               /\ ResponseOf(r).storageKeyOriginal \in OriginalKeys
               /\ ResponseOf(r).storageKeyThumb \in ThumbKeys
               /\ ResponseOf(r).storageKeyOriginal[3] = ResponseOf(r).sha256
               /\ ResponseOf(r).storageKeyThumb[3] = ResponseOf(r).sha256)
    /\ [][OriginalKeys \subseteq OriginalKeys' /\ ThumbKeys \subseteq ThumbKeys']_vars

\* An upload was answered, then a further upload of the same content was
\* answered on a later day as a duplicate: the files of both answers exist.
C29_Witness ==
    /\ Resolved(1) /\ Resolved(2)
    /\ 1 \in inp[2].after
    /\ ResponseOf(2).deduped
    /\ loc[2].day > loc[1].day
    /\ ResponseOf(1).storageKeyOriginal \in OriginalKeys
    /\ ResponseOf(1).storageKeyThumb \in ThumbKeys

\* C30: in every reachable state, also in the middle of concurrent
\* uploads, every thumbnail t/{bucket}/{digest}.jpg has an original with
\* the same digest in the mirror bucket o/{bucket}/; a request about to
\* generate a thumbnail has its original in place at the resolved path.
C30_ThumbnailHasOriginal ==
    /\ \A t \in thumbs :
          \E f \in originals : f.dir = t.dir /\ f.sha = t.sha
    /\ \A r \in Req :
          pc[r] = "thumbgen" =>
             /\ \E f \in originals :
                   /\ f.dir = PathsOf(r).dir /\ f.sha = ShaOf(r)
                   /\ f.ext = loc[r].ext
             /\ PathsOf(r).thumb = [dir |-> PathsOf(r).dir, sha |-> ShaOf(r)]

\* Two uploads of different contents in flight: one has both its files,
\* the other has written its original and is about to make its thumbnail.
C30_Witness ==
    \E r, q \in Req :
        /\ r # q
        /\ pc[r] = "thumbgen" /\ "original" \in loc[r].wrote
        /\ PathsOf(r).thumb \notin thumbs
        /\ pc[q] \in {"cleanup", "respond"} /\ "thumb" \in loc[q].wrote
        /\ loc[q].sha # loc[r].sha
        /\ thumbs # {}

\* No request is in flight: each has ended, was refused, or has not come.
Quiescent == \A r \in Req : pc[r] \in {"idle", "refused", "done"}

\* C31: an upload that ends in failure leaves no newly created original
\* behind: in every quiescent state every original under the originals
\* root has a thumbnail at its mirror path.
C31_NoOriginalWithoutThumbnail ==
    Quiescent =>
        \A f \in originals : deriveThumbPathFromOriginal(f) \in thumbs

\* C32: the bytes field of every successful upload response is the byte
\* length of the normalized output whose digest the response returns, for
\* a new and for a deduplicated upload alike, also when the deduplicated
\* upload runs while another upload of the same content is still writing
\* the original.
C32_BytesIsNormalizedLength ==
    \A r \in Req :
        Resolved(r) =>
            /\ ResponseOf(r).sha256 = Sha256(DataOf(r))
            /\ ResponseOf(r).bytes = DataLen(DataOf(r))

\* C33: the size check is strict.  An upload whose byte count is at most
\* the effective ceiling is never rejected as too large, and a body of
\* exactly the ceiling's size goes on to sniffing.
C33_AtCeilingPasses ==
    \A r \in Req :
        Accepted(r) /\ inp[r].body.len <= Ceiling(r) =>
            /\ out[r].message # "File exceeds allowed size"
            /\ out[r].error # "PayloadTooLarge" \/ IsVideo(r)

Prefix(n) == [i \in 1..n |-> i]

Sequential == \A r \in Req : inp[r].alone

\* An original all of whose bytes have been written.
StoredOriginals == {f \in originals : f.size = DataLen(f.data)}

\* The step in which a request that was told isNew = false passes the place
\* where the original would be written.
DedupPassesWrite(r) ==
    /\ pc[r] = "store" /\ pc'[r] # "store"
    /\ ~PathsOf(r).isNew

\* C36: storage is append-only for uploads and lookups.  No step removes or
\* moves a file under the originals or the thumbnails root; an upload told
\* isNew = false writes nothing at the original's path; and in sequential
\* execution a stored original keeps its bytes from then on.
C36_StorageAppendOnly ==
    /\ [][/\ OriginalKeys \subseteq OriginalKeys'
          /\ thumbs \subseteq thumbs']_vars
    /\ [][\A r \in Req : DedupPassesWrite(r) => originals' = originals]_vars
    /\ [](\A r \in Req :
            (loc[r].paths # None /\ ~PathsOf(r).isNew) =>
                "original" \notin loc[r].wrote)
    /\ [][Sequential' => StoredOriginals \subseteq StoredOriginals']_vars

\* Sequential execution in which an original was stored and a later upload
\* of the same content, on a later day, was answered as a duplicate with the
\* stored file's size.
C36_Witness ==
    /\ Sequential
    /\ Resolved(1) /\ Resolved(2)
    /\ PathsOf(1).isNew /\ ~PathsOf(2).isNew
    /\ PathsOf(2).dir # loc[2].day
    /\ FileAt(PathsOf(2).dir, ShaOf(2), loc[2].ext) \subseteq StoredOriginals
    /\ "original" \notin loc[2].wrote

\* A file `{sha}.{ext}` of the request's digest, in any bucket.
SameNameStored(r) == {f \in originals : f.sha = ShaOf(r) /\ f.ext = loc[r].ext}

\* The steps of resolvePathsForSha: the search, and the making of the
\* bucket directories and of the result for a new digest.
SearchStep(r) == pc[r] = "resolve" /\ pc'[r] # "resolve"
ReturnsNew(r) == pc[r] = "allocate" /\ pc'[r] = "store"

\* C37: resolvePathsForSha says isNew = true exactly when the search found no
\* file `{digest}.{ext}` in any bucket under the originals root; it then
\* returns with the original and the thumbnail directory of the current UTC
\* date in place, and it creates no file.
C37_IsNewIffNothingStored ==
    /\ [][\A r \in Req : SearchStep(r) =>
            /\ (SameNameStored(r) = {}) <=> (pc'[r] = "allocate")
            /\ (SameNameStored(r) # {}) <=>
                  (pc'[r] = "store" /\ ~PathsOf(r)'.isNew
                     /\ FileAt(PathsOf(r)'.dir, ShaOf(r), loc[r].ext) # {})
            /\ originals' = originals /\ thumbs' = thumbs]_vars
    /\ [][\A r \in Req : ReturnsNew(r) =>
            /\ PathsOf(r)'.isNew
            /\ PathsOf(r)'.dir = buildDatePath
            /\ buildDatePath \in odirs' /\ buildDatePath \in tdirs'
            /\ originals' = originals /\ thumbs' = thumbs]_vars
    /\ [](\A r \in Req :
            (loc[r].paths # None /\ PathsOf(r).isNew) =>
                /\ PathsOf(r).dir \in odirs
                /\ PathsOf(r).dir \in tdirs)

\* The caller's write failed after resolvePathsForSha had returned: the
\* buckets of the day are there and no original is in them.
C37_Witness ==
    \E r \in Req :
        /\ Rejected(r) /\ out[r].message = "write failed"
        /\ PathsOf(r).isNew
        /\ PathsOf(r).dir \in odirs /\ PathsOf(r).dir \in tdirs
        /\ originals = {} /\ thumbs = {}

=============================================================================
